---- MODULE Spec2Model ----
(***************************************************************************)
(* A model of scripts/render_progress_svgs.py: the normalizer              *)
(* (interpret_sections), the aggregator (compute_state_counters), the grid *)
(* generator (generate_grid_commands), the section orchestrator            *)
(* (render_section_svg), the serializer (generate_svg_from_lines) and the  *)
(* run of main with its exit status.                                       *)
(*                                                                         *)
(* Python values are tagged records: t is the Python type, and the payload *)
(* is held in a field named after it (n, s, items, pairs).                 *)
(* A mapping with free keys (units, states, sections) is a sequence of     *)
(* <<key, value>> pairs in insertion order.  A mapping with known keys (a  *)
(* section, a group, a unit descriptor, the root) is a record with one     *)
(* field per key, holding Absent when the key is not in the mapping.       *)
(***************************************************************************)
EXTENDS Integers, Sequences, FiniteSets, TLC

VARIABLES
  source,            \* what progress.yaml holds (or that it cannot be read)
  progress,          \* main's local `progress`
  pc,                \* main's position: load, interpret, render, exited
  error_messages,    \* the module-level list error_messages
  warning_messages,  \* the module-level list warning_messages
  sections,          \* main's local `sections`
  rendered,          \* what each finished render_section_svg call produced
                     \* and the warnings it recorded
  exit_status,       \* the process exit status (-1 while running)
  crashed,           \* the function an uncaught exception came out of, or "no"
  call,              \* arguments of a direct call of generate_grid_commands
                     \* or of generate_svg_from_lines
  ret,               \* its return value
  files              \* the files under progress/: <<path, lines>> pairs

vars == <<source, progress, pc, error_messages, warning_messages, sections,
          rendered, exit_status, crashed, call, ret, files>>

(***************************************************************************)
(* Python values                                                           *)
(***************************************************************************)
None == [t |-> "none"]
Absent == [t |-> "absent"]
IntV(n) == [t |-> "int", n |-> n]
StrV(s) == [t |-> "str", s |-> s]
ListV(q) == [t |-> "list", items |-> q]
MapV(q) == [t |-> "dict", pairs |-> q]

\* whether two keys of a mapping are equal: ints by value, strings by text
SameKey(a, b) ==
  a.t = b.t /\ (IF a.t = "int" THEN a.n = b.n ELSE a.s = b.s)

\* dict.get(key, default): the field, or the default when the key is absent
Get(field, default) == IF field.t = "absent" THEN default ELSE field

DecDigit == <<"0", "1", "2", "3", "4", "5", "6", "7", "8", "9">>

RECURSIVE NatStr(_)
NatStr(n) == IF n < 10 THEN DecDigit[n + 1]
             ELSE NatStr(n \div 10) \o DecDigit[(n % 10) + 1]

\* str(n) of an int
StrOfInt(n) == IF n < 0 THEN "-" \o NatStr(-n) ELSE NatStr(n)

\* the integers whose decimal form a string of the model can hold
MaxParsed == 20

\* int(x): an int as it is, a decimal string parsed, anything else raises
PyInt(x) ==
  IF x.t = "int" THEN [ok |-> TRUE, v |-> x.n]
  ELSE IF x.t = "str" /\ \E n \in -MaxParsed..MaxParsed : StrOfInt(n) = x.s
       THEN [ok |-> TRUE,
             v |-> CHOOSE n \in -MaxParsed..MaxParsed : StrOfInt(n) = x.s]
       ELSE [ok |-> FALSE, v |-> 0]

\* str(x), as an f-string formats a value
PyStr(x) ==
  CASE x.t = "str" -> x.s
    [] x.t = "int" -> StrOfInt(x.n)
    [] x.t = "none" -> "None"
    [] x.t = "list" -> IF x.items = <<>> THEN "[]" ELSE "[...]"
    [] OTHER -> "{...}"

(***************************************************************************)
(* Issue lists: handle_error and handle_warning append to one list each.   *)
(* acc carries both lists through a call, and whether the call raised.     *)
(***************************************************************************)
NoIssues == [e |-> <<>>, w |-> <<>>, raised |-> FALSE]

\* lines 17-22 with the message filed in the warning list
handle_error_as_warning(acc, message) == [acc EXCEPT !.w = Append(@, message)]

\* lines 17-22
handle_error(acc, message) == [acc EXCEPT !.e = Append(@, message)]

\* lines 25-30 with the list rewritten to hold the new message only
handle_warning_latest(acc, message) == [acc EXCEPT !.w = <<message>>]

\* lines 25-30
handle_warning(acc, message) == [acc EXCEPT !.w = Append(@, message)]

Raise(acc) == [acc EXCEPT !.raised = TRUE]

\* "if cond: handle_error(message)"
ErrorIf(cond, acc, message) == IF cond THEN handle_error(acc, message) ELSE acc

\* "if cond: handle_warning(message)"
WarningIf(cond, acc, message) == IF cond THEN handle_warning(acc, message) ELSE acc

\* d[k] = v on a mapping held as pairs: an existing key keeps its place
RECURSIVE DictSet(_, _, _)
DictSet(pairs, k, v) ==
  IF pairs = <<>> THEN << <<k, v>> >>
  ELSE IF SameKey(pairs[1][1], k) THEN << <<k, v>> >> \o Tail(pairs)
       ELSE <<pairs[1]>> \o DictSet(Tail(pairs), k, v)

\* d.get(k, default) on a mapping held as pairs
RECURSIVE Lookup(_, _, _)
Lookup(pairs, k, default) ==
  IF pairs = <<>> THEN default
  ELSE IF SameKey(pairs[1][1], k) THEN pairs[1][2]
       ELSE Lookup(Tail(pairs), k, default)

UnitDict(name, plural) == [t |-> "dict", name |-> name, plural |-> plural]

(***************************************************************************)
(* interpret_sections.  A loop over a list carries st = [items, acc]: the  *)
(* entries appended so far and the messages recorded so far.               *)
(***************************************************************************)
SecMsg(key) == "Section '" \o PyStr(key) \o "'"

GrpMsg(key, gid) == SecMsg(key) \o ", group '" \o PyStr(gid) \o "'"

SubMsg(key, gid, sid) == GrpMsg(key, gid) \o ", subgroup '" \o PyStr(sid) \o "'"

\* the end of one turn of a loop in which a continue also empties the list
KeptSinceLastSkip(items, r) ==
  [items |-> IF r.keep THEN Append(items, r.item) ELSE <<>>, acc |-> r.acc]

\* the end of one turn of a loop: r.item is appended unless the turn hit
\* a continue
Kept(items, r) ==
  [items |-> IF r.keep THEN Append(items, r.item) ELSE items, acc |-> r.acc]

Skip(acc) == [keep |-> FALSE, item |-> None, acc |-> acc]

\* lines 524-535: the unit descriptor
InterpretUnit(key, unit, acc) ==
  IF unit.t = "dict" /\ unit.name.t # "absent"
  THEN [unit |-> unit, acc |-> acc]
  ELSE IF unit.t = "none"
       THEN [unit |-> UnitDict(StrV(""), StrV("")),
             acc |-> handle_error(acc, SecMsg(key) \o
                       ": missing 'unit' mapping; using empty placeholders.")]
       ELSE [unit |-> UnitDict(
                        IF unit.t = "dict" THEN Get(unit.name, StrV("")) ELSE StrV(""),
                        IF unit.t = "dict" THEN Get(unit.plural, StrV("")) ELSE StrV("")),
             acc |-> handle_error(acc, SecMsg(key) \o
                       ": 'unit' must be a mapping with at least 'name'. Normalising.")]

\* line 543 without the int(k) of a key that is no int
StateKeyIntOnly(k) ==
  IF k.t = "int" THEN [ok |-> TRUE, v |-> k.n] ELSE [ok |-> FALSE, v |-> 0]

\* line 543: the key as it is when an int, else int(k)
StateKeyInt(k) == IF k.t = "int" THEN [ok |-> TRUE, v |-> k.n] ELSE PyInt(k)

\* lines 541-550 without the cast of line 549
InterpretStateItemUncast(key, k, v, ki, states, acc) ==
  IF ~ki.ok
  THEN [states |-> states,
        acc |-> handle_error(acc, SecMsg(key) \o ": state key '" \o PyStr(k)
                               \o "' is not an integer; skipping.")]
  ELSE [states |-> DictSet(states, IntV(ki.v), v),
        acc |-> ErrorIf(v.t # "str", acc, SecMsg(key) \o ": state value for '"
                          \o PyStr(k) \o "' should be a string; casting.")]

\* lines 541-550: one item of states.items(), ki being the int of its key
InterpretStateItem(key, k, v, ki, states, acc) ==
  IF ~ki.ok
  THEN [states |-> states,
        acc |-> handle_error(acc, SecMsg(key) \o ": state key '" \o PyStr(k)
                               \o "' is not an integer; skipping.")]
  ELSE IF v.t # "str"
       THEN [states |-> DictSet(states, IntV(ki.v), StrV(PyStr(v))),
             acc |-> handle_error(acc, SecMsg(key) \o ": state value for '"
                                    \o PyStr(k) \o "' should be a string; casting.")]
       ELSE [states |-> DictSet(states, IntV(ki.v), v), acc |-> acc]

\* lines 540-550: the loop over states.items()
RECURSIVE InterpretStateItems(_, _, _)
InterpretStateItems(key, items, st) ==
  IF items = <<>> THEN st
  ELSE InterpretStateItems(key, Tail(items),
         InterpretStateItem(key, items[1][1], items[1][2],
                            StateKeyInt(items[1][1]), st.states, st.acc))

\* lines 537-553: the states mapping
InterpretStates(key, states, acc) ==
  IF states.t = "dict"
  THEN InterpretStateItems(key, states.pairs, [states |-> <<>>, acc |-> acc])
  ELSE [states |-> <<>>,
        acc |-> handle_error(acc, SecMsg(key) \o
                  ": 'states' must be a mapping; defaulting to empty.")]

\* lines 557-561: parsed is what int(final_state) gave
FinalStateOf(key, parsed, acc) ==
  IF parsed.ok THEN [final_state |-> IntV(parsed.v), acc |-> acc]
  ELSE [final_state |-> None,
        acc |-> handle_error(acc, SecMsg(key) \o
                  ": 'final_state' must be an integer. Setting to None.")]

\* lines 555-561: final_state
InterpretFinalState(key, final_state, acc) ==
  IF final_state.t = "none" THEN [final_state |-> None, acc |-> acc]
  ELSE FinalStateOf(key, PyInt(final_state), acc)

\* lines 621-625: parsed is what int(total) gave
SubgroupTotalOf(key, gid, sid, parsed, acc) ==
  IF parsed.ok THEN [total |-> IntV(parsed.v), acc |-> acc]
  ELSE [total |-> IntV(0),
        acc |-> handle_error(acc, SubMsg(key, gid, sid) \o
                  ": 'total' not an integer; setting to 0.")]

\* lines 616-625: a subgroup's total
SubgroupTotal(key, gid, sid, total, acc) ==
  IF total.t = "none"
  THEN [total |-> IntV(0),
        acc |-> handle_warning(acc, SubMsg(key, gid, sid) \o
                  ": missing 'total'. Setting to 0.")]
  ELSE SubgroupTotalOf(key, gid, sid, PyInt(total), acc)

\* lines 627-636: the subgroup entry, tot being its total
SubgroupEntry(key, gid, sg, units, tot) ==
  [keep |-> TRUE,
   item |-> [t |-> "dict", id |-> sg.id, label |-> Get(sg.label, StrV("")),
             total |-> tot.total,
             units |-> IF units.t = "dict" THEN units ELSE MapV(<<>>),
             subgroups |-> Absent],
   acc |-> ErrorIf(units.t # "dict", tot.acc, SubMsg(key, gid, sg.id) \o
             ": 'units' must be a mapping; using empty dict.")]

\* lines 603-636: one subgroup
InterpretSubgroup(key, gid, si, sg, acc) ==
  IF sg.t # "dict"
  THEN Skip(handle_error(acc, GrpMsg(key, gid) \o ": subgroup at index "
              \o StrOfInt(si) \o " invalid; skipping."))
  ELSE IF Get(sg.id, None).t = "none"
  THEN Skip(handle_error(acc, GrpMsg(key, gid) \o ": subgroup at index "
              \o StrOfInt(si) \o " missing 'id'; skipping."))
  ELSE SubgroupEntry(key, gid, sg, Get(sg.units, MapV(<<>>)),
         SubgroupTotal(key, gid, sg.id, Get(sg.total, None), acc))

\* lines 601-636: the loop over g_subgroups, from index si
RECURSIVE InterpretSubgroups(_, _, _, _, _)
InterpretSubgroups(key, gid, list, si, st) ==
  IF si >= Len(list) THEN st
  ELSE InterpretSubgroups(key, gid, list, si + 1,
         Kept(st.items, InterpretSubgroup(key, gid, si, list[si + 1], st.acc)))

\* lines 651-655 with the int() outside the try block
GroupTotalUnguarded(key, gid, parsed, acc) ==
  IF parsed.ok THEN [total |-> IntV(parsed.v), acc |-> acc]
  ELSE [total |-> IntV(0), acc |-> Raise(acc)]

\* lines 651-655: parsed is what int(g_total) gave
GroupTotalOf(key, gid, parsed, acc) ==
  IF parsed.ok THEN [total |-> IntV(parsed.v), acc |-> acc]
  ELSE [total |-> IntV(0),
        acc |-> handle_error(acc, GrpMsg(key, gid) \o
                  ": 'total' not an integer; setting to 0.")]

\* lines 646-655: a leaf group's total
GroupTotal(key, gid, g_total, acc) ==
  IF g_total.t = "none"
  THEN [total |-> IntV(0),
        acc |-> handle_warning(acc, GrpMsg(key, gid) \o
                  ": missing 'total'. Setting to 0.")]
  ELSE GroupTotalOf(key, gid, PyInt(g_total), acc)

\* lines 638-642 with the raw group's 'total' and 'units' carried over
ContainerEntryWithUnits(group, subs) ==
  [keep |-> TRUE,
   item |-> [t |-> "dict", id |-> group.id, label |-> Get(group.label, StrV("")),
             subgroups |-> ListV(subs.items), total |-> group.total,
             units |-> group.units],
   acc |-> subs.acc]

\* lines 638-642: the entry of a group with subgroups
ContainerEntry(group, subs) ==
  [keep |-> TRUE,
   item |-> [t |-> "dict", id |-> group.id, label |-> Get(group.label, StrV("")),
             subgroups |-> ListV(subs.items), total |-> Absent,
             units |-> Absent],
   acc |-> subs.acc]

\* lines 657-670: the entry of a group without subgroups, tot being its total
LeafEntry(key, group, g_units, tot) ==
  [keep |-> TRUE,
   item |-> [t |-> "dict", id |-> group.id, label |-> Get(group.label, StrV("")),
             total |-> tot.total,
             units |-> IF g_units.t = "dict" THEN g_units ELSE MapV(<<>>),
             subgroups |-> Absent],
   acc |-> ErrorIf(g_units.t # "none" /\ g_units.t # "dict", tot.acc,
             GrpMsg(key, group.id) \o
             ": 'units' must be a mapping; using empty dict.")]

\* lines 596-599: g_subgroups as the list that is looped over
SubgroupItems(g_subgroups) ==
  IF g_subgroups.t = "list" THEN g_subgroups.items ELSE <<>>

\* lines 581-670: one group
InterpretGroup(key, gi, group, acc) ==
  IF group.t # "dict"
  THEN Skip(handle_error(acc, SecMsg(key) \o ": group at index "
              \o StrOfInt(gi) \o " must be a mapping; skipping."))
  ELSE IF Get(group.id, None).t = "none"
  THEN Skip(handle_error(acc, SecMsg(key) \o ": group at index "
              \o StrOfInt(gi) \o " missing 'id'; skipping."))
  ELSE IF Get(group.subgroups, None).t # "none"
  THEN ContainerEntry(group,
         InterpretSubgroups(key, group.id, SubgroupItems(group.subgroups), 0,
           [items |-> <<>>,
            acc |-> ErrorIf(group.subgroups.t # "list", acc,
                      GrpMsg(key, group.id) \o ": 'subgroups' must be a list.")]))
  ELSE LeafEntry(key, group, Get(group.units, None),
         GroupTotal(key, group.id, Get(group.total, None), acc))

\* lines 580-670: the loop over groups, from index gi
RECURSIVE InterpretGroups(_, _, _, _)
InterpretGroups(key, list, gi, st) ==
  IF st.acc.raised \/ gi >= Len(list) THEN st
  ELSE InterpretGroups(key, list, gi + 1,
         Kept(st.items, InterpretGroup(key, gi, list[gi + 1], st.acc)))

\* lines 566-578: the messages about groups and top-level units
GroupsIssues(key, groups, section_units, acc) ==
  WarningIf(groups.t # "none" /\ (groups.t # "list" \/ groups.items = <<>>),
    ErrorIf(groups.t # "none" /\ groups.t # "list",
      ErrorIf(groups.t = "none" /\ section_units.t # "none"
                /\ section_units.t # "dict",
              acc,
              SecMsg(key) \o ": top-level 'units' must be a mapping; using empty dict."),
      SecMsg(key) \o ": 'groups' must be a list."),
    SecMsg(key) \o ": 'groups' is empty.")

\* lines 563-670: groups_out
SectionGroups(key, groups, section_units, acc) ==
  InterpretGroups(key, IF groups.t = "list" THEN groups.items ELSE <<>>, 0,
    [items |-> <<>>, acc |-> GroupsIssues(key, groups, section_units, acc)])

\* lines 681-683: the 'units' of the section entry
SectionUnitsOut(section_units) ==
  IF section_units.t = "none" THEN Absent
  ELSE IF section_units.t = "dict" THEN section_units ELSE MapV(<<>>)

\* lines 672-688: the section entry built from the normalised parts
SectionEntry(key, sec, unit, states, final_state, g) ==
  [keep |-> TRUE,
   item |-> [t |-> "dict", id |-> key, title |-> Get(sec.title, StrV("")),
             unit |-> UnitDict(Get(unit.name, StrV("")),
                               Get(unit.plural, StrV(""))),
             states |-> MapV(states), final_state |-> final_state,
             groups |-> ListV(g.items),
             units |-> SectionUnitsOut(Get(sec.units, None))],
   acc |-> WarningIf(Get(sec.units, None).t # "none"
                       /\ SectionUnitsOut(Get(sec.units, None)).pairs = <<>>,
             g.acc, SecMsg(key) \o ": top-level 'units' is empty.")]

\* lines 555-688, fs being the normalised final_state
SectionAfterFinal(key, sec, unit, states, fs) ==
  SectionEntry(key, sec, unit, states, fs.final_state,
    SectionGroups(key, Get(sec.groups, None), Get(sec.units, None), fs.acc))

\* lines 537-688, st being the normalised states
SectionAfterStates(key, sec, unit, st) ==
  SectionAfterFinal(key, sec, unit, st.states,
    InterpretFinalState(key, Get(sec.final_state, None), st.acc))

\* lines 524-688, u being the normalised unit
SectionAfterUnit(key, sec, u) ==
  SectionAfterStates(key, sec, u.unit,
    InterpretStates(key, Get(sec.states, MapV(<<>>)), u.acc))

\* lines 513-688: one item of sections_raw.items()
InterpretSection(key, sec, acc) ==
  IF sec.t # "dict"
  THEN Skip(handle_error(acc, SecMsg(key) \o " must be an object/dictionary."))
  ELSE SectionAfterUnit(key, sec, InterpretUnit(key, Get(sec.unit, None), acc))

\* lines 512-688: the loop over sections_raw.items()
RECURSIVE InterpretItems(_, _)
InterpretItems(items, st) ==
  IF st.acc.raised \/ items = <<>> THEN st
  ELSE InterpretItems(Tail(items),
         Kept(st.items, InterpretSection(items[1][1], items[1][2], st.acc)))

\* line 690, or the exception that left the loop
SectionsResult(st) ==
  [ret |-> IF st.acc.raised THEN None ELSE ListV(st.items), acc |-> st.acc]

\* lines 485-690; ret is None or the list of section entries, acc the
\* messages the call appended (raised: an exception left the call)
interpret_sections(prog) ==
  IF prog.t # "dict"
  THEN [ret |-> None,
        acc |-> handle_error(NoIssues,
                  "Top-level progress structure must be a mapping/dictionary.")]
  ELSE IF Get(prog.sections, None).t = "none"
  THEN [ret |-> None,
        acc |-> handle_error(NoIssues,
                  "Missing top-level 'sections' key in progress.yaml.")]
  ELSE IF prog.sections.t # "dict"
  THEN [ret |-> None,
        acc |-> handle_error(NoIssues, "'sections' must be a mapping/dictionary.")]
  ELSE SectionsResult(InterpretItems(prog.sections.pairs,
                                     [items |-> <<>>, acc |-> NoIssues]))

(***************************************************************************)
(* interpolate_color.  A position is held in hundredths, the query value   *)
(* as the fraction num/den, a color as its hex string.                     *)
(***************************************************************************)
HexDigit == <<"0", "1", "2", "3", "4", "5", "6", "7", "8", "9",
              "A", "B", "C", "D", "E", "F">>

\* "{:02X}" of one channel
Hex2(n) == HexDigit[(n \div 16) + 1] \o HexDigit[(n % 16) + 1]

\* lines 42-43
rgb_to_hex(rgb) == "#" \o Hex2(rgb[1]) \o Hex2(rgb[2]) \o Hex2(rgb[3])

LowerHexDigit == <<"0", "1", "2", "3", "4", "5", "6", "7", "8", "9",
                   "a", "b", "c", "d", "e", "f">>

\* int(c, 16) of one hex digit
HexValue(c) ==
  CHOOSE v \in 0..15 : HexDigit[v + 1] = c \/ LowerHexDigit[v + 1] = c

\* hex_color.lstrip("#")
RECURSIVE StripHash(_)
StripHash(text) ==
  IF text # "" /\ SubSeq(text, 1, 1) = "#"
  THEN StripHash(SubSeq(text, 2, Len(text))) ELSE text

\* int(digits[i:i+2], 16), i counted from 1
HexByte(digits, i) ==
  16 * HexValue(SubSeq(digits, i, i)) + HexValue(SubSeq(digits, i + 1, i + 1))

\* line 39, on the digits left by line 38
HexTriple(digits) == <<HexByte(digits, 1), HexByte(digits, 3), HexByte(digits, 5)>>

\* lines 37-39
hex_to_rgb(hex_color) == HexTriple(StripHash(hex_color))

\* lines 323-329
GRADIENT == << <<0, "#161c23">>, <<25, "#0e4527">>, <<50, "#006e34">>,
               <<75, "#28a541">>, <<100, "#39d255">> >>

\* round(a / b) for b > 0: Python rounds a half to the even neighbour
RoundHalfEven(a, b) ==
  LET q == a \div b
      r == a % b
  IN IF 2 * r < b THEN q
     ELSE IF 2 * r > b THEN q + 1
          ELSE IF q % 2 = 0 THEN q ELSE q + 1

\* line 57 left out: the stops as they were given
SortStopsAsGiven(colors) == colors

\* sorted(colors, key=position): a stable insertion sort
RECURSIVE InsertStop(_, _)
InsertStop(sorted, stop) ==
  IF sorted = <<>> THEN <<stop>>
  ELSE IF stop[1] < sorted[1][1] THEN <<stop>> \o sorted
       ELSE <<sorted[1]>> \o InsertStop(Tail(sorted), stop)

RECURSIVE SortStops(_)
SortStops(colors) ==
  IF colors = <<>> THEN <<>>
  ELSE InsertStop(SortStops(SubSeq(colors, 1, Len(colors) - 1)),
                  colors[Len(colors)])

\* lines 66-77: the first pair of neighbours around the value, from index i
RECURSIVE InterpolateFrom(_, _, _, _)
InterpolateFrom(colors, i, num, den) ==
  IF i >= Len(colors) THEN "None"
  ELSE LET p1 == colors[i][1]
           p2 == colors[i + 1][1]
       IN IF p1 * den <= 100 * num /\ 100 * num <= p2 * den
          THEN LET tn == 100 * num - p1 * den
                   td == (p2 - p1) * den
                   c1 == hex_to_rgb(colors[i][2])
                   c2 == hex_to_rgb(colors[i + 1][2])
                   ch(k) == RoundHalfEven(c1[k] * td + (c2[k] - c1[k]) * tn, td)
               IN rgb_to_hex(<<ch(1), ch(2), ch(3)>>)
          ELSE InterpolateFrom(colors, i + 1, num, den)

\* lines 46-77; "ValueError" stands for the raise of line 54
interpolate_color(colors, num, den) ==
  IF ~(0 <= num /\ num <= den) THEN "ValueError"
  ELSE LET sorted == SortStops(colors)
       IN IF 100 * num <= sorted[1][1] * den THEN sorted[1][2]
          ELSE IF 100 * num >= sorted[Len(sorted)][1] * den
               THEN sorted[Len(sorted)][2]
               ELSE InterpolateFrom(sorted, 1, num, den)

(***************************************************************************)
(* compute_state_counters                                                  *)
(***************************************************************************)
\* sorted() of a list of ints
RECURSIVE InsertInt(_, _)
InsertInt(sorted, n) ==
  IF sorted = <<>> THEN <<n>>
  ELSE IF n < sorted[1] THEN <<n>> \o sorted
       ELSE <<sorted[1]>> \o InsertInt(Tail(sorted), n)

RECURSIVE SortInts(_)
SortInts(q) ==
  IF q = <<>> THEN <<>>
  ELSE InsertInt(SortInts(SubSeq(q, 1, Len(q) - 1)), q[Len(q)])

\* sorted([int(k) for k in states.keys()]), lines 108 and 333
StateKeys(section) ==
  LET states == Get(section.states, MapV(<<>>))
  IN SortInts([i \in 1..Len(states.pairs) |-> PyInt(states.pairs[i][1]).v])

\* line 98: unit_states.append(int(val)), parsed being what int(val) gave;
\* ok turns FALSE when the int() raised
AddUnitState(st, parsed) ==
  [ok |-> st.ok /\ parsed.ok,
   states |-> IF parsed.ok THEN Append(st.states, parsed.v) ELSE st.states]

\* lines 97-99: the loop over node["units"].items(); st = [ok, states]
RECURSIVE UnitValues(_, _)
UnitValues(pairs, st) ==
  IF ~st.ok \/ pairs = <<>> THEN st
  ELSE UnitValues(Tail(pairs), AddUnitState(st, PyInt(pairs[1][2])))

\* lines 91-101: collect_units over a node, and over a list of nodes
RECURSIVE collect_units(_, _)
RECURSIVE CollectList(_, _)
collect_units(node, st) ==
  IF node.t # "dict" THEN st
  ELSE CollectList(Get(node.subgroups, ListV(<<>>)).items,
                   IF node.units.t # "absent"
                   THEN UnitValues(node.units.pairs, st) ELSE st)

CollectList(nodes, st) ==
  IF ~st.ok \/ nodes = <<>> THEN st
  ELSE CollectList(Tail(nodes), collect_units(nodes[1], st))

\* the number of elements of a sequence of ints that are >= s
RECURSIVE CountAtLeast(_, _)
CountAtLeast(q, s) ==
  IF q = <<>> THEN 0
  ELSE (IF q[1] >= s THEN 1 ELSE 0) + CountAtLeast(Tail(q), s)

\* a slip of the comparison of line 112
RECURSIVE CountAtMost(_, _)
CountAtMost(q, s) ==
  IF q = <<>> THEN 0
  ELSE (IF q[1] <= s THEN 1 ELSE 0) + CountAtMost(Tail(q), s)

\* line 112
Completed(unit_states, s) == CountAtLeast(unit_states, s)

\* lines 109-113 with the first, lowest, key passed over instead of key 0
RECURSIVE CountersFromAboveLowest(_, _, _, _)
CountersFromAboveLowest(state_keys, i, unit_states, counters) ==
  IF i > Len(state_keys) THEN counters
  ELSE CountersFromAboveLowest(state_keys, i + 1, unit_states,
         IF i = 1 THEN counters
         ELSE DictSet(counters, IntV(state_keys[i]),
                      <<Completed(unit_states, state_keys[i]),
                        Len(unit_states)>>))

\* lines 109-113: the loop over state_keys from index i; counters is held
\* as pairs <<IntV(s), <<completed, total>>>> in insertion order
RECURSIVE CountersFrom(_, _, _, _)
CountersFrom(state_keys, i, unit_states, counters) ==
  IF i > Len(state_keys) THEN counters
  ELSE CountersFrom(state_keys, i + 1, unit_states,
         IF state_keys[i] = 0 THEN counters
         ELSE DictSet(counters, IntV(state_keys[i]),
                      <<Completed(unit_states, state_keys[i]),
                        Len(unit_states)>>))

\* lines 106-114, collected being what the loop of lines 103-104 gathered
CountersOf(section, collected) ==
  [ok |-> collected.ok,
   counters |-> CountersFrom(StateKeys(section), 1, collected.states, <<>>),
   total_units |-> Len(collected.states)]

\* lines 80-114; ok is FALSE when the int() of line 98 raised
compute_state_counters(section) ==
  CountersOf(section, CollectList(Get(section.groups, ListV(<<>>)).items,
                                  [ok |-> TRUE, states |-> <<>>]))

(***************************************************************************)
(* Drawing commands.  A command string 'RECT|x|y|...' is held as a record  *)
(* of its fields, cmd being the tag.                                       *)
(***************************************************************************)
Rect(x, y, w, h, rx, ry, cls) ==
  [cmd |-> "RECT", x |-> x, y |-> y, w |-> w, h |-> h, rx |-> rx, ry |-> ry,
   cls |-> cls]

Text(x, y, cls, content) ==
  [cmd |-> "TEXT", x |-> x, y |-> y, cls |-> cls, content |-> content]

Style(css) == [cmd |-> "STYLE", css |-> css]

GroupOpen(id, transform) ==
  [cmd |-> "GROUP_OPEN", id |-> id, transform |-> transform]

GroupClose == [cmd |-> "GROUP_CLOSE"]

(***************************************************************************)
(* generate_grid_commands (show_unit_ids False and unit_order None, as     *)
(* its only caller passes them)                                            *)
(***************************************************************************)
\* the order of Python's string comparison on the unit identifiers used
UnitIdOrder == <<"a", "b", "c", "d", "e">>

IdRank(s) == CHOOSE i \in 1..Len(UnitIdOrder) : UnitIdOrder[i] = s

RECURSIVE InsertId(_, _)
InsertId(sorted, k) ==
  IF sorted = <<>> THEN <<k>>
  ELSE IF IdRank(k.s) < IdRank(sorted[1].s) THEN <<k>> \o sorted
       ELSE <<sorted[1]>> \o InsertId(Tail(sorted), k)

\* sorted(units_map.keys()), line 235
RECURSIVE SortedKeys(_)
SortedKeys(pairs) ==
  IF pairs = <<>> THEN <<>>
  ELSE InsertId(SortedKeys(SubSeq(pairs, 1, Len(pairs) - 1)),
                pairs[Len(pairs)][1])

\* "{:03d}" of a positive int
Pad3(n) == IF n < 10 THEN "00" \o NatStr(n)
           ELSE IF n < 100 THEN "0" \o NatStr(n) ELSE NatStr(n)

\* line 241: the placeholder ids, for range(n_cells)
PlaceholderIds(group_id, n_cells) ==
  [i \in 1..n_cells |-> StrV(PyStr(group_id) \o "-" \o Pad3(i))]

\* lines 266-269: int() of the unit's value, 0 when it raises
CellState(units_map, uid) ==
  LET v == PyInt(Lookup(units_map.pairs, uid, IntV(0)))
  IN IF v.ok THEN v.v ELSE 0

\* math.ceil(n / cols) for cols > 0
CeilDiv(n, cols) == -((-n) \div cols)

Max(a, b) == IF a >= b THEN a ELSE b

Min(a, b) == IF a <= b THEN a ELSE b

\* lines 233-241 without the fallback to the declared total
NCellsNoFallback(units_map, total) == Len(units_map.pairs)

\* lines 233-241: the number of cells
NCells(units_map, total) ==
  IF units_map.pairs # <<>> THEN Len(units_map.pairs)
  ELSE IF total.t = "int" THEN total.n ELSE 0

\* lines 259-279 with the row and the column taken for one another in the
\* coordinates of a cell
RECURSIVE GridLoopColumnMajor(_, _, _, _, _)
GridLoopColumnMajor(g, r, c, idx, cmds) ==
  IF r >= g.rows THEN cmds
  ELSE IF c >= g.cols \/ idx >= g.n_cells
       THEN GridLoopColumnMajor(g, r + 1, 0, idx, cmds)
       ELSE GridLoopColumnMajor(g, r, c + 1, idx + 1,
              Append(cmds,
                Rect(g.x0 + r * (g.cell_size + g.gap),
                     g.y0 + c * (g.cell_size + g.gap),
                     g.cell_size, g.cell_size, g.rx, g.ry,
                     "square state-"
                       \o StrOfInt(CellState(g.units_map, g.unit_ids[idx + 1])))))

\* lines 259-279: the two loops, at row r and column c with idx cells
\* emitted; g holds the values the loops read
RECURSIVE GridLoop(_, _, _, _, _)
GridLoop(g, r, c, idx, cmds) ==
  IF r >= g.rows THEN cmds
  ELSE IF c >= g.cols \/ idx >= g.n_cells
       THEN GridLoop(g, r + 1, 0, idx, cmds)
       ELSE GridLoop(g, r, c + 1, idx + 1,
              Append(cmds,
                Rect(g.x0 + c * (g.cell_size + g.gap),
                     g.y0 + r * (g.cell_size + g.gap),
                     g.cell_size, g.cell_size, g.rx, g.ry,
                     "square state-"
                       \o StrOfInt(CellState(g.units_map, g.unit_ids[idx + 1])))))

\* line 282 left out: the group of the grid is never closed
GridCommandsUnclosed(group, origin_x, origin_y, cols, cell_size, gap, rx, ry) ==
  LET um == Get(group.units, MapV(<<>>))
      units_map == IF um.t = "dict" THEN um ELSE MapV(<<>>)
      group_id == Get(group.id, StrV("group"))
      n_cells == NCells(units_map, Get(group.total, IntV(0)))
      unit_ids == IF units_map.pairs # <<>> THEN SortedKeys(units_map.pairs)
                  ELSE PlaceholderIds(group_id, n_cells)
  IN IF n_cells = 0 THEN [cmds |-> <<>>, total_height |-> 0]
     ELSE LET ncols == Max(1, Min(cols, n_cells))
              rows == CeilDiv(n_cells, ncols)
              g == [units_map |-> units_map, unit_ids |-> unit_ids,
                    n_cells |-> n_cells, cols |-> ncols, rows |-> rows,
                    x0 |-> origin_x, y0 |-> origin_y, cell_size |-> cell_size,
                    gap |-> gap, rx |-> rx, ry |-> ry]
          IN [cmds |-> GridLoop(g, 0, 0, 0, <<GroupOpen("grid", "")>>),
              total_height |-> rows * cell_size + (rows - 1) * gap]

\* lines 190-285
generate_grid_commands(group, origin_x, origin_y, cols, cell_size, gap, rx, ry) ==
  LET um == Get(group.units, MapV(<<>>))
      units_map == IF um.t = "dict" THEN um ELSE MapV(<<>>)
      group_id == Get(group.id, StrV("group"))
      n_cells == NCells(units_map, Get(group.total, IntV(0)))
      unit_ids == IF units_map.pairs # <<>> THEN SortedKeys(units_map.pairs)
                  ELSE PlaceholderIds(group_id, n_cells)
  IN IF n_cells = 0 THEN [cmds |-> <<>>, total_height |-> 0]
     ELSE LET ncols == Max(1, Min(cols, n_cells))
              rows == CeilDiv(n_cells, ncols)
              g == [units_map |-> units_map, unit_ids |-> unit_ids,
                    n_cells |-> n_cells, cols |-> ncols, rows |-> rows,
                    x0 |-> origin_x, y0 |-> origin_y, cell_size |-> cell_size,
                    gap |-> gap, rx |-> rx, ry |-> ry]
          IN [cmds |-> GridLoop(g, 0, 0, 0, <<GroupOpen("grid", "")>>)
                       \o <<GroupClose>>,
              total_height |-> rows * cell_size + (rows - 1) * gap]

(***************************************************************************)
(* generate_svg_from_lines                                                 *)
(***************************************************************************)
Q == "\""

\* xml.sax.saxutils.escape of one character
EscapeChar(c) ==
  IF c = "&" THEN "&amp;"
  ELSE IF c = "<" THEN "&lt;" ELSE IF c = ">" THEN "&gt;" ELSE c

\* xml.sax.saxutils.escape: & < > are replaced, any other character kept
RECURSIVE SaxEscape(_)
SaxEscape(text) ==
  IF text = "" THEN ""
  ELSE EscapeChar(SubSeq(text, 1, 1)) \o SaxEscape(SubSeq(text, 2, Len(text)))

\* the command strings of lines 256, 273, 278, 282, 384, 393, 461, 470 and
\* 475: what the f-string of each command puts between the bars
CommandString(c) ==
  CASE c.cmd = "STYLE" -> "STYLE|" \o c.css
    [] c.cmd = "TEXT" ->
         "TEXT|" \o StrOfInt(c.x) \o "|" \o StrOfInt(c.y) \o "|" \o c.cls
         \o "|" \o c.content
    [] c.cmd = "RECT" ->
         "RECT|" \o StrOfInt(c.x) \o "|" \o StrOfInt(c.y) \o "|" \o StrOfInt(c.w)
         \o "|" \o StrOfInt(c.h) \o "|" \o StrOfInt(c.rx) \o "|" \o StrOfInt(c.ry)
         \o "|" \o c.cls
    [] c.cmd = "GROUP_OPEN" -> "GROUP_OPEN|" \o c.id \o "|" \o c.transform
    [] c.cmd = "GROUP_CLOSE" -> "GROUP_CLOSE|"

\* the list cmds as render_section_svg hands it to the serializer
CommandStrings(cmds) == [j \in 1..Len(cmds) |-> CommandString(cmds[j])]

\* the least index of a set of indexes, 0 when it is empty
FirstOf(indexes) ==
  IF indexes = {} THEN 0
  ELSE CHOOSE i \in indexes : \A j \in indexes : i <= j

\* the index of the first "|" of text, 0 when none
FindBar(text) == FirstOf({i \in 1..Len(text) : SubSeq(text, i, i) = "|"})

\* text.split("|", maxsplit)
RECURSIVE Split(_, _)
RECURSIVE SplitAt(_, _, _)
SplitAt(text, maxsplit, bar) ==
  IF bar = 0 THEN <<text>>
  ELSE <<SubSeq(text, 1, bar - 1)>>
       \o Split(SubSeq(text, bar + 1, Len(text)), maxsplit - 1)

Split(text, maxsplit) ==
  SplitAt(text, maxsplit, IF maxsplit = 0 THEN 0 ELSE FindBar(text))

IsSpace(c) == c \in {" ", "\t", "\n", "\r"}

\* text.strip()
RECURSIVE Strip(_)
Strip(text) ==
  IF text = "" THEN ""
  ELSE IF IsSpace(SubSeq(text, 1, 1)) THEN Strip(SubSeq(text, 2, Len(text)))
  ELSE IF IsSpace(SubSeq(text, Len(text), Len(text)))
       THEN Strip(SubSeq(text, 1, Len(text) - 1))
       ELSE text

LowerLetters == <<"a", "b", "c", "d", "e", "f", "g", "h", "i", "j", "k", "l", "m",
                  "n", "o", "p", "q", "r", "s", "t", "u", "v", "w", "x", "y", "z">>

UpperLetters == <<"A", "B", "C", "D", "E", "F", "G", "H", "I", "J", "K", "L", "M",
                  "N", "O", "P", "Q", "R", "S", "T", "U", "V", "W", "X", "Y", "Z">>

UpperChar(c) ==
  IF \E k \in 1..Len(LowerLetters) : LowerLetters[k] = c
  THEN UpperLetters[CHOOSE k \in 1..Len(LowerLetters) : LowerLetters[k] = c]
  ELSE c

\* text.upper()
RECURSIVE Upper(_)
Upper(text) ==
  IF text = "" THEN ""
  ELSE UpperChar(SubSeq(text, 1, 1)) \o Upper(SubSeq(text, 2, Len(text)))

\* the serializer's loop carries st = [style_blocks, body_elements, raised]
AppendBody(st, element) == [st EXCEPT !.body_elements = Append(@, element)]

\* lines 147-152
TextElement(parts, st) ==
  IF Len(parts) < 5 THEN [st EXCEPT !.raised = TRUE]
  ELSE AppendBody(st,
         "<text x=" \o Q \o parts[2] \o Q \o " y=" \o Q \o parts[3] \o Q
         \o " class=" \o Q \o parts[4] \o Q \o ">" \o SaxEscape(parts[5])
         \o "</text>")

\* lines 153-159
RectElement(rect_parts, st) ==
  IF Len(rect_parts) < 8 THEN [st EXCEPT !.raised = TRUE]
  ELSE AppendBody(st,
         "<rect x=" \o Q \o rect_parts[2] \o Q \o " y=" \o Q \o rect_parts[3] \o Q
         \o " width=" \o Q \o rect_parts[4] \o Q
         \o " height=" \o Q \o rect_parts[5] \o Q
         \o " rx=" \o Q \o rect_parts[6] \o Q \o " ry=" \o Q \o rect_parts[7] \o Q
         \o " class=" \o Q \o rect_parts[8] \o Q \o " />")

\* lines 160-165
GroupElement(gid, transform, st) ==
  AppendBody(st,
    "<g id=" \o Q \o SaxEscape(gid) \o Q
    \o (IF transform # ""
        THEN " transform=" \o Q \o SaxEscape(transform) \o Q ELSE "")
    \o ">")

\* lines 143-170: one command, parts being raw.split("|", 4) and cmd its
\* first part stripped and in upper case
SerializeCommand(raw, parts, cmd, st) ==
  CASE cmd = "STYLE" ->
         [st EXCEPT !.style_blocks =
                      Append(@, IF Len(parts) > 1 THEN parts[2] ELSE "")]
    [] cmd = "TEXT" -> TextElement(parts, st)
    [] cmd = "RECT" -> RectElement(Split(raw, 8), st)
    [] cmd = "GROUP_OPEN" ->
         GroupElement(IF Len(parts) > 1 THEN parts[2] ELSE "",
                      IF Len(parts) > 2 THEN parts[3] ELSE "", st)
    [] cmd = "GROUP_CLOSE" -> AppendBody(st, "</g>")
    [] OTHER -> AppendBody(st, raw)

\* lines 139-141
SerializeParts(raw, parts, st) ==
  SerializeCommand(raw, parts, Upper(Strip(parts[1])), st)

\* lines 134-170: the loop over the command strings; an empty string is
\* passed over, a raise ends the loop
RECURSIVE SerializeLines(_, _)
SerializeLines(lines, st) ==
  IF st.raised \/ lines = <<>> THEN st
  ELSE SerializeLines(Tail(lines),
         IF lines[1] = "" THEN st
         ELSE SerializeParts(lines[1], Split(lines[1], 4), st))

\* lines 172-185 reached after a raise too: the elements made before the
\* malformed command are written
SvgDocumentSoFar(st, out_path, svg_width, svg_height) ==
  [raised |-> FALSE, path |-> out_path,
   svg_lines |->
     <<"<svg xmlns=" \o Q \o "http://www.w3.org/2000/svg" \o Q \o " width="
       \o Q \o StrOfInt(svg_width) \o Q \o " viewBox=" \o Q \o "0 0 "
       \o StrOfInt(svg_width) \o " " \o StrOfInt(svg_height) \o Q \o ">">>
     \o (IF st.style_blocks # <<>>
         THEN <<"<style>">> \o st.style_blocks \o <<"</style>">> ELSE <<>>)
     \o st.body_elements \o <<"</svg>">>]

\* lines 172-185: the lines of the document, written to out_path only
\* when the loop has not raised
SvgDocument(st, out_path, svg_width, svg_height) ==
  IF st.raised
  THEN [raised |-> TRUE, path |-> out_path, svg_lines |-> <<>>]
  ELSE [raised |-> FALSE, path |-> out_path,
        svg_lines |->
          <<"<svg xmlns=" \o Q \o "http://www.w3.org/2000/svg" \o Q \o " width="
            \o Q \o StrOfInt(svg_width) \o Q \o " viewBox=" \o Q \o "0 0 "
            \o StrOfInt(svg_width) \o " " \o StrOfInt(svg_height) \o Q \o ">">>
          \o (IF st.style_blocks # <<>>
              THEN <<"<style>">> \o st.style_blocks \o <<"</style>">> ELSE <<>>)
          \o st.body_elements \o <<"</svg>">>]

\* lines 117-187: lines are the command strings; raised: a ValueError
\* left the call before anything was written
generate_svg_from_lines(lines, out_path, svg_width, svg_height) ==
  SvgDocument(SerializeLines(lines, [style_blocks |-> <<>>,
                                     body_elements |-> <<>>, raised |-> FALSE]),
              out_path, svg_width, svg_height)

(***************************************************************************)
(* render_section_svg, with the defaults main calls it with                *)
(***************************************************************************)
canvas_width == 500
margin == 24
title_gap == 32
path_gap == 24
grid_cols == 12
grid_cell_size == 24
grid_gap == 8
grid_rx == 2
grid_ry == 2
legend_square_size == 16
legend_spacing == 20
legend_padding_bottom == 16
TEXT_BASELINE_OFFSET == 14
GRID_POST_SPACING == 16
LEGEND_PRE_SPACING == 16
LEGEND_SQUARE_BASELINE_OFFSET == 14
LEGEND_TEXT_OFFSET == 8
UNCATALOGUED_SPACING == 30
\* line 343
RIGHT_PADDING == margin

\* lines 345-350, with the default of AVG_CHAR_WIDTH.get(cls, 8)
AVG_CHAR_WIDTH(cls) ==
  CASE cls = "title" -> 11
    [] cls \in {"path", "legend", "body"} -> 9
    [] OTHER -> 8

\* lines 352-357, for a text that is a string
estimate_text_width(text, cls) == Len(text) * AVG_CHAR_WIDTH(cls)

\* lines 359-362: the new max_x.  Nothing in render_section_svg calls it
update_max_for_text(max_x, xpos, text, cls) ==
  Max(max_x, xpos + estimate_text_width(text, cls) + RIGHT_PADDING)

\* lines 364-366: the new max_x.  Nothing in render_section_svg calls it
update_max_for_rect(max_x, xpos, width) ==
  Max(max_x, xpos + width + RIGHT_PADDING)

show_title == FALSE

UncataloguedText == "Units have not yet been catalogued for tracking progress."

\* "sep".join(strings)
RECURSIVE Join(_, _)
Join(sep, strings) ==
  IF strings = <<>> THEN ""
  ELSE IF Len(strings) = 1 THEN strings[1]
       ELSE strings[1] \o sep \o Join(sep, Tail(strings))

\* lines 380-382: the class of each state key, from index i (0-based)
RECURSIVE StateCss(_, _)
StateCss(state_keys, i) ==
  IF i >= Len(state_keys) THEN <<>>
  ELSE LET n == Len(state_keys)
           color == IF n > 1 THEN interpolate_color(GRADIENT, i, n - 1)
                    ELSE interpolate_color(GRADIENT, 1, 2)
       IN <<".square.state-" \o StrOfInt(state_keys[i + 1]) \o " { fill: "
            \o color \o "; }">>
          \o StateCss(state_keys, i + 1)

\* lines 372-384
CssLines(state_keys) ==
  <<".bg { fill: #0d1116; rx: 10px; ry: 10px; }",
    ".title { font: bold 20px sans-serif; fill: #fff; }",
    ".path { font: 16px sans-serif; fill: #fff; }",
    ".legend { font: 16px sans-serif; fill: #fff; }",
    ".body { font: 16px sans-serif; fill: #fff; }",
    ".square { rx: 2px; fill: none; }">>
  \o StateCss(state_keys, 0)

\* lines 392-393
append_text_at(text, xpos, ypos, cls) ==
  Text(xpos, ypos + TEXT_BASELINE_OFFSET, cls, text)

\* lines 429-430: the grid's commands are appended and y advances
ExtendWithGrid(st, grid) ==
  [cmds |-> st.cmds \o grid.cmds,
   y |-> st.y + grid.total_height + GRID_POST_SPACING, acc |-> st.acc]

\* lines 415-430; st = [cmds, y, acc] holds the commands so far, the
\* cursor, and the warnings so far with whether an exception was raised
render_grid_section(group, st) ==
  ExtendWithGrid(st, generate_grid_commands(group, margin, st.y, grid_cols,
                                            grid_cell_size, grid_gap,
                                            grid_rx, grid_ry))

\* line 400 with the group's own label in place of the joined path
HeaderOwnLabel(current_path) == current_path[Len(current_path)].s

\* line 400: "/".join(current_path)
Header(current_path) ==
  Join("/", [i \in 1..Len(current_path) |-> current_path[i].s])

\* lines 401-402: the header of a leaf group
WithHeader(st, header) ==
  [cmds |-> Append(st.cmds, append_text_at(header, margin, st.y, "path")),
   y |-> st.y + path_gap, acc |-> st.acc]

\* lines 403-407 without the warning of line 404
UncataloguedUnwarned(st, header) ==
  [cmds |-> Append(st.cmds, append_text_at(UncataloguedText, margin, st.y, "body")),
   y |-> st.y + UNCATALOGUED_SPACING, acc |-> st.acc]

\* lines 403-407: a leaf group with total 0, st being past the header
Uncatalogued(st, header) ==
  [cmds |-> Append(st.cmds, append_text_at(UncataloguedText, margin, st.y, "body")),
   y |-> st.y + UNCATALOGUED_SPACING,
   acc |-> handle_warning(st.acc, "Group '" \o header \o
             "' has total=0; considered uncatalogued.")]

\* lines 395-413: render_group, and the loop over a list of groups
RECURSIVE render_group(_, _, _)
RECURSIVE RenderGroups(_, _, _)
render_group(group, path, st) ==
  LET current_path == Append(path, Get(group.label, Get(group.id, StrV(""))))
      subgroups == Get(group.subgroups, ListV(<<>>)).items
      total == Get(group.total, IntV(0))
  IN IF group.units.t # "absent" /\ group.units.t # "none"
     THEN IF \E i \in 1..Len(current_path) : current_path[i].t # "str"
          THEN [st EXCEPT !.acc = Raise(@)]
          ELSE IF total.t = "int" /\ total.n = 0
               THEN Uncatalogued(WithHeader(st, Header(current_path)),
                                 Header(current_path))
               ELSE RenderGroups(subgroups, current_path,
                      render_grid_section(group,
                        WithHeader(st, Header(current_path))))
     ELSE RenderGroups(subgroups, current_path, st)

RenderGroups(groups, path, st) ==
  IF st.acc.raised \/ groups = <<>> THEN st
  ELSE RenderGroups(Tail(groups), path, render_group(groups[1], path, st))

\* "{pct:.1f}" of completed / total * 100
Pct1(completed, total) ==
  LET tenths == IF total # 0 THEN RoundHalfEven(completed * 1000, total) ELSE 0
  IN StrOfInt(tenths \div 10) \o "." \o StrOfInt(tenths % 10)

\* line 469: the text of a state with counters ct = <<completed, total>>
CountedText(label, ct, unit_plural) ==
  PyStr(label) \o " (" \o StrOfInt(ct[1]) \o "/" \o StrOfInt(ct[2])
  \o " " \o PyStr(unit_plural) \o ", " \o Pct1(ct[1], ct[2]) \o "%)"

\* lines 456 and 466-469 for every state: no label-only text for state 0
LegendTextCounted(section, counters, total_units, s) ==
  CountedText(
    Lookup(section.states.pairs, IntV(s),
           Lookup(section.states.pairs, StrV(StrOfInt(s)), StrV(""))),
    Lookup(counters, IntV(s), <<0, total_units>>),
    Get(Get(section.unit, UnitDict(Absent, Absent)).plural, StrV("units")))

\* lines 456 and 463-469: the legend text of state s
LegendText(section, counters, total_units, s) ==
  IF s = 0
  THEN PyStr(Lookup(section.states.pairs, IntV(s),
                    Lookup(section.states.pairs, StrV(StrOfInt(s)), StrV(""))))
  ELSE CountedText(
         Lookup(section.states.pairs, IntV(s),
                Lookup(section.states.pairs, StrV(StrOfInt(s)), StrV(""))),
         Lookup(counters, IntV(s), <<0, total_units>>),
         Get(Get(section.unit, UnitDict(Absent, Absent)).plural, StrV("units")))

\* lines 455-471: the legend rows of the state keys from index i; st.y is
\* legend_y
RECURSIVE Legend(_, _, _, _, _, _)
Legend(section, counters, total_units, state_keys, i, st) ==
  IF i > Len(state_keys) THEN st
  ELSE Legend(section, counters, total_units, state_keys, i + 1,
         [cmds |-> st.cmds \o
                   <<Rect(margin, st.y - LEGEND_SQUARE_BASELINE_OFFSET,
                          legend_square_size, legend_square_size, 2, 2,
                          "square state-" \o StrOfInt(state_keys[i])),
                     Text(margin + legend_square_size + LEGEND_TEXT_OFFSET,
                          st.y, "legend",
                          LegendText(section, counters, total_units,
                                     state_keys[i]))>>,
          y |-> st.y + legend_spacing, acc |-> st.acc])

\* line 441: the synthetic group of the top-level units
SyntheticGroup(units_map) ==
  [t |-> "dict", id |-> StrV("all"), label |-> StrV("All"),
   units |-> units_map, total |-> Absent, subgroups |-> Absent]

\* lines 432-446: the groups, or the top-level units of a section without
\* groups
RenderBody(section, st) ==
  IF Get(section.groups, ListV(<<>>)).t = "none"
       \/ Get(section.groups, ListV(<<>>)).items = <<>>
  THEN IF Get(section.units, MapV(<<>>)).pairs = <<>>
       THEN [cmds |-> Append(st.cmds,
                        append_text_at(UncataloguedText, margin, st.y, "body")),
             y |-> st.y + UNCATALOGUED_SPACING,
             acc |-> handle_warning(st.acc, "Section '"
                       \o PyStr(Get(section.title, StrV("")))
                       \o "' has no units; considered uncatalogued.")]
       ELSE render_grid_section(SyntheticGroup(section.units), st)
  ELSE RenderGroups(section.groups.items, <<>>, st)

\* lines 372-391: the commands and the cursor before the body
RenderStart(section) ==
  IF show_title
  THEN [cmds |-> <<Style(Join("\n", CssLines(StateKeys(section)))),
                   Text(margin, margin + TEXT_BASELINE_OFFSET, "title",
                        PyStr(Get(section.title, StrV("Section"))))>>,
        y |-> margin + title_gap, acc |-> NoIssues]
  ELSE [cmds |-> <<Style(Join("\n", CssLines(StateKeys(section))))>>,
        y |-> margin, acc |-> NoIssues]

\* an exception left render_section_svg: no document was written
RenderRaised(acc) ==
  [acc |-> Raise(acc), cmds |-> <<>>, height |-> 0, counters |-> <<>>,
   total_units |-> 0, max_x |-> margin,
   document |-> [raised |-> TRUE, path |-> "", svg_lines |-> <<>>]]

\* line 478: document is what generate_svg_from_lines made of the
\* finished commands; its ValueError would leave render_section_svg too
RenderWritten(acc, counted, cmds, final_height, document) ==
  [acc |-> IF document.raised THEN Raise(acc) ELSE acc,
   cmds |-> cmds, height |-> final_height,
   counters |-> counted.counters, total_units |-> counted.total_units,
   max_x |-> margin, document |-> document]

\* lines 475-478: the background inserted at index 0 and the call of the
\* serializer
RenderSerialized(acc, counted, cmds, final_height, out_path) ==
  RenderWritten(acc, counted, cmds, final_height,
    generate_svg_from_lines(CommandStrings(cmds), out_path, canvas_width,
                            final_height))

\* lines 473-478 with the background appended after the other commands
RenderFinishBackgroundLast(counted, legend, out_path) ==
  RenderSerialized(legend.acc, counted,
    legend.cmds
      \o <<Rect(0, 0, canvas_width, legend.y + legend_padding_bottom, 0, 0, "bg")>>,
    legend.y + legend_padding_bottom, out_path)

\* lines 473-478: final_height and the background inserted at index 0
RenderFinish(counted, legend, out_path) ==
  RenderSerialized(legend.acc, counted,
    <<Rect(0, 0, canvas_width, legend.y + legend_padding_bottom, 0, 0, "bg")>>
      \o legend.cmds,
    legend.y + legend_padding_bottom, out_path)

\* lines 448-478, counted being what compute_state_counters returned
RenderLegend(section, out_path, body, counted) ==
  IF ~counted.ok THEN RenderRaised(body.acc)
  ELSE RenderFinish(counted,
         Legend(section, counted.counters, counted.total_units,
                StateKeys(section), 1,
                [cmds |-> body.cmds, y |-> body.y + LEGEND_PRE_SPACING,
                 acc |-> body.acc]),
         out_path)

\* lines 448-478, body being the commands and the cursor after the groups
RenderAfterBody(section, out_path, body) ==
  IF body.acc.raised THEN RenderRaised(body.acc)
  ELSE RenderLegend(section, out_path, body, compute_state_counters(section))

\* lines 288-478.  acc.w: the warnings the call recorded; acc.raised: an
\* exception left the call, and then no document was written.  max_x is
\* never moved: update_max_for_text and update_max_for_rect are not called
render_section_svg(section, out_path) ==
  RenderAfterBody(section, out_path, RenderBody(section, RenderStart(section)))

(***************************************************************************)
(* The configurations the model is run on                                  *)
(***************************************************************************)
MaxUnits == 3    \* units listed in one mapping
MaxState == 2    \* highest state a unit or a states mapping holds

Group(id, label, total, units, subgroups) ==
  [t |-> "dict", id |-> id, label |-> label, total |-> total, units |-> units,
   subgroups |-> subgroups]

Section(title, unit, states, final_state, groups, units) ==
  [t |-> "dict", id |-> Absent, title |-> title, unit |-> unit,
   states |-> states, final_state |-> final_state, groups |-> groups,
   units |-> units]

Root(items) == [t |-> "dict", sections |-> MapV(items)]

U(k, n) == <<StrV(k), IntV(n)>>

\* units a, b, ... in order, every choice of states
GoodUnitMaps ==
  UNION {{[i \in 1..n |-> U(UnitIdOrder[i], f[i])] : f \in [1..n -> 0..MaxState]}
         : n \in 0..MaxUnits}

\* units whose state is missing or no integer, and units listed out of order
OddUnitMaps ==
  {<< <<StrV("a"), None>> >>,
   << <<StrV("a"), StrV("x")>>, U("b", 1) >>,
   << <<StrV("a"), StrV("2")>> >>,
   << U("b", 1), U("a", 2) >>}

StateLabel(k, top) ==
  IF k = 0 THEN "todo" ELSE IF k = top THEN "done" ELSE "stage" \o StrOfInt(k)

\* {0: "todo", ..., top: "done"}
StatesTo(top) == MapV([i \in 1..(top + 1) |-> <<IntV(i - 1), StrV(StateLabel(i - 1, top))>>])

FullStates == StatesTo(MaxState)

OddStates ==
  {Absent, ListV(<<>>), MapV(<<>>), StatesTo(0),
   MapV(<< <<StrV("0"), StrV("todo")>>, <<StrV("1"), StrV("done")>> >>),
   MapV(<< <<IntV(0), StrV("todo")>>, <<StrV("x"), StrV("done")>> >>),
   MapV(<< <<IntV(0), StrV("todo")>>, <<IntV(1), IntV(5)>> >>),
   MapV(<< <<IntV(1), StrV("scanned")>>, <<IntV(2), StrV("done")>> >>),
   MapV(<< <<IntV(1), StrV("one")>>, <<StrV("1"), StrV("uno")>> >>),
   MapV(<< <<StrV("0"), StrV("todo")>>, <<StrV("x"), StrV("lost")>>,
           <<IntV(1), IntV(5)>>, <<StrV("2"), None>> >>)}

Pages == UnitDict(StrV("page"), StrV("pages"))

UnitChoices ==
  {Pages, Absent, None, StrV("page"), UnitDict(Absent, StrV("pages")),
   UnitDict(StrV("page"), Absent)}

FinalChoices == {Absent, IntV(MaxState), StrV("2"), StrV("x"), ListV(<<>>)}

LeafTotals ==
  {Absent, StrV("x"), StrV("2")} \cup {IntV(n) : n \in -1..(MaxUnits + 1)}

LeafUnits ==
  {Absent, ListV(<<>>)} \cup {MapV(m) : m \in GoodUnitMaps \cup OddUnitMaps}

LeafGroups ==
  {Group(StrV("g1"), StrV("G1"), t, u, Absent) : t \in LeafTotals, u \in LeafUnits}

SubgroupPool ==
  {Group(StrV("s1"), StrV("S1"), IntV(2), MapV(<<U("a", 1), U("b", 2)>>), Absent),
   Group(StrV("s2"), StrV("S2"), IntV(0), MapV(<<>>), Absent),
   Group(StrV("s3"), Absent, Absent, Absent, Absent),
   Group(StrV("s4"), StrV("R&D"), IntV(3), MapV(<<>>), Absent),
   Group(StrV("s5"), StrV("S5"), StrV("x"), ListV(<<>>), Absent),
   Group(StrV("s6"), StrV("S6"), IntV(1), MapV(<< <<StrV("a"), None>> >>), Absent),
   Group(Absent, StrV("S7"), IntV(1), MapV(<<U("a", 1)>>), Absent),
   StrV("bad")}

SubgroupLists ==
  {<<>>} \cup {<<a>> : a \in SubgroupPool}
  \cup {<<a, b>> : a \in SubgroupPool, b \in SubgroupPool}

ContainerGroups ==
  {Group(StrV("c1"), StrV("C1"), Absent, Absent, ListV(q)) : q \in SubgroupLists}
  \cup {Group(StrV("c1"), StrV("C1"), IntV(2), MapV(<<U("a", 1)>>), StrV("x")),
        Group(StrV("c1"), StrV("C1"), IntV(1), MapV(<<U("a", 2)>>),
              ListV(<<Group(StrV("s1"), StrV("S1"), IntV(1), MapV(<<U("b", 1)>>),
                            Absent)>>))}

GoodLeaf == Group(StrV("g1"), StrV("G1"), IntV(2), MapV(<<U("a", 2), U("b", 0)>>), Absent)

GroupPool ==
  {GoodLeaf,
   Group(StrV("g2"), StrV("G2"), IntV(0), MapV(<<>>), Absent),
   Group(StrV("g3"), StrV("G3"), IntV(1), MapV(<<U("a", 1)>>), Absent),
   Group(StrV("c1"), StrV("C1"), Absent, Absent,
         ListV(<<Group(StrV("s1"), StrV("S1"), IntV(1), MapV(<<U("a", 1)>>), Absent),
                 Group(StrV("s2"), StrV("S2"), IntV(0), MapV(<<>>), Absent)>>)),
   Group(Absent, StrV("G5"), IntV(1), MapV(<<U("a", 1)>>), Absent),
   Group(StrV("g6"), IntV(7), IntV(1), MapV(<<U("a", 1)>>), Absent),
   ListV(<<>>)}

GroupLists ==
  {<<>>} \cup {<<g>> : g \in LeafGroups \cup ContainerGroups}
  \cup {<<a, b>> : a \in GroupPool, b \in GroupPool}

\* sections without groups
FlatSections ==
  {Section(StrV("Part 1"), Pages, StatesTo(top), Absent, Absent, MapV(m))
     : top \in 1..MaxState, m \in GoodUnitMaps \cup OddUnitMaps}
  \cup {Section(StrV("Part 1"), Pages, FullStates, Absent, Absent, u)
          : u \in {Absent, None, ListV(<<>>)}}

\* sections with groups
GroupedSections ==
  {Section(StrV("Part 2"), Pages, FullStates, Absent, ListV(q), Absent)
     : q \in GroupLists}
  \cup {Section(StrV("Part 2"), Pages, FullStates, Absent, g, u)
          : g \in {StrV("x"), ListV(<<GoodLeaf>>), ListV(<<>>)},
            u \in {MapV(<<U("a", 1)>>), MapV(<<>>), ListV(<<>>)}}

\* sections whose own fields are missing or malformed
OddSections ==
  {Section(title, unit, states, final, ListV(<<GoodLeaf>>), Absent)
     : title \in {StrV("Part 3"), Absent}, unit \in UnitChoices,
       states \in OddStates \cup {FullStates}, final \in FinalChoices}

SectionPool == FlatSections \cup GroupedSections \cup OddSections

\* sections that share a configuration with another one
PairPool ==
  {Section(StrV("Part 1"), Pages, StatesTo(1), Absent, Absent,
           MapV(<<U("a", 0), U("b", 1), U("c", 1)>>)),
   Section(StrV("Part 2"), Pages, FullStates, Absent, ListV(<<GoodLeaf>>), Absent),
   Section(StrV("Part 2"), Pages, FullStates, Absent,
           ListV(<<Group(StrV("g1"), StrV("G1"), IntV(1),
                         MapV(<< <<StrV("a"), None>> >>), Absent)>>), Absent),
   Section(StrV("Part 2"), Absent, FullStates, StrV("x"),
           ListV(<<Group(StrV("g2"), StrV("G2"), IntV(0), MapV(<<>>), Absent)>>),
           Absent),
   Section(StrV("Part 3"), Pages, FullStates, Absent, ListV(<<>>), Absent),
   Section(StrV("Part 4"), Pages, FullStates, Absent,
           ListV(<<StrV("bad"),
                   Group(StrV("c1"), StrV("C1"), Absent, Absent,
                         ListV(<<Group(Absent, StrV("S7"), IntV(1),
                                       MapV(<<U("a", 1)>>), Absent),
                                 Group(StrV("s1"), StrV("S1"), IntV(1),
                                       MapV(<<U("a", 1)>>), Absent)>>)),
                   Group(Absent, StrV("G5"), IntV(1), MapV(<<U("a", 1)>>), Absent),
                   GoodLeaf>>),
           Absent),
   StrV("bad")}

Roots ==
  {Root(<< <<StrV("p1"), sec>> >>) : sec \in SectionPool}
  \cup {Root(<< <<StrV("p1"), a>>, <<StrV("p2"), b>> >>)
          : a \in PairPool, b \in PairPool}
  \cup {Root(<<>>),
        [t |-> "dict", sections |-> Absent],
        [t |-> "dict", sections |-> None],
        [t |-> "dict", sections |-> ListV(<<>>)],
        [t |-> "dict", sections |-> StrV("x")],
        ListV(<<>>), StrV("x"), IntV(1)}

\* what open() and yaml.safe_load can give main: no file, a file that does
\* not parse, an empty file (None), or a parsed value
Sources ==
  Roots \cup {[t |-> "missing"], [t |-> "unparsable", why |-> "mapping values are not allowed here"], None}

(***************************************************************************)
(* main and the end of the run (lines 697-739)                             *)
(***************************************************************************)
Init ==
  /\ source \in Sources
  /\ progress = None
  /\ pc = "load"
  /\ error_messages = <<>>
  /\ warning_messages = <<>>
  /\ sections = None
  /\ rendered = <<>>
  /\ exit_status = -1
  /\ crashed = "no"
  /\ call = None
  /\ ret = None
  /\ files = <<>>

\* lines 698-709
Load ==
  /\ pc = "load"
  /\ progress' = IF source.t \in {"missing", "unparsable"} THEN None ELSE source
  /\ error_messages' =
       IF source.t = "missing"
       THEN Append(error_messages, "progress.yaml not found in current directory.")
       ELSE IF source.t = "unparsable"
            THEN Append(error_messages, "Failed to load progress.yaml: " \o source.why)
            ELSE error_messages
  /\ pc' = IF progress'.t = "none" THEN "report" ELSE "interpret"
  /\ UNCHANGED <<source, warning_messages, sections, rendered, exit_status,
                 crashed, call, ret, files>>

\* lines 711-713
Interpret ==
  /\ pc = "interpret"
  /\ \E r \in {interpret_sections(progress)} :
        /\ error_messages' = error_messages \o r.acc.e
        /\ warning_messages' = warning_messages \o r.acc.w
        /\ sections' = r.ret
        /\ crashed' = IF r.acc.raised THEN "interpret_sections" ELSE crashed
        /\ exit_status' = IF r.acc.raised THEN 1 ELSE exit_status
        /\ pc' = IF r.acc.raised THEN "exited"
                 ELSE IF r.ret.t = "none" THEN "report" ELSE "render"
  /\ UNCHANGED <<source, progress, rendered, call, ret, files>>

\* lines 183-185: open(out_path, "w") and write; a file that is there is
\* replaced
RECURSIVE WriteFile(_, _, _)
WriteFile(fs, path, svg_lines) ==
  IF fs = <<>> THEN << <<path, svg_lines>> >>
  ELSE IF fs[1][1] = path THEN << <<path, svg_lines>> >> \o Tail(fs)
       ELSE <<fs[1]>> \o WriteFile(Tail(fs), path, svg_lines)

OutPath(section) == "progress/" \o PyStr(Get(section.id, StrV("unknown"))) \o ".svg"

\* lines 715-718: one turn of the loop; an exception out of
\* render_section_svg ends the process with a traceback and status 1
Render ==
  /\ pc = "render"
  /\ Len(rendered) < Len(sections.items)
  /\ \E r \in {render_section_svg(sections.items[Len(rendered) + 1],
                                    OutPath(sections.items[Len(rendered) + 1]))} :
        /\ warning_messages' = warning_messages \o r.acc.w
        /\ IF r.acc.raised
           THEN /\ crashed' = "render_section_svg"
                /\ exit_status' = 1
                /\ pc' = "exited"
                /\ UNCHANGED <<rendered, files>>
           ELSE /\ files' = WriteFile(files, r.document.path,
                                     r.document.svg_lines)
                /\ rendered' = Append(rendered,
                     [cmds |-> r.cmds, height |-> r.height,
                      counters |-> r.counters, total_units |-> r.total_units,
                      max_x |-> r.max_x, document |-> r.document,
                      warnings |-> r.acc.w])
                /\ UNCHANGED <<crashed, exit_status, pc>>
  /\ UNCHANGED <<source, progress, error_messages, sections, call, ret>>

\* lines 721-739: main has returned; the messages are printed and the
\* status is 1 when there is an error message
Report ==
  /\ \/ pc = "report"
     \/ pc = "render" /\ Len(rendered) = Len(sections.items)
  /\ exit_status' = IF error_messages # <<>> THEN 1 ELSE 0
  /\ pc' = "exited"
  /\ UNCHANGED <<source, progress, error_messages, warning_messages, sections,
                 rendered, crashed, call, ret, files>>

Next == Load \/ Interpret \/ Render \/ Report

Spec == Init /\ [][Next]_vars

(***************************************************************************)
(* generate_grid_commands called on its own, with any column count         *)
(***************************************************************************)
MaxCols == 5

GridGroups ==
  {Group(StrV("g1"), StrV("G1"), t, MapV(m), Absent)
     : t \in {Absent} \cup {IntV(n) : n \in -1..(MaxUnits + 1)},
       m \in GoodUnitMaps \cup OddUnitMaps}

GridInit ==
  /\ call \in {[group |-> g, cols |-> c] : g \in GridGroups, c \in -1..MaxCols}
  /\ ret = None
  /\ pc = "call"
  /\ source = None
  /\ progress = None
  /\ error_messages = <<>>
  /\ warning_messages = <<>>
  /\ sections = None
  /\ rendered = <<>>
  /\ exit_status = -1
  /\ crashed = "no"
  /\ files = <<>>

GridCall ==
  /\ pc = "call"
  /\ ret' = generate_grid_commands(call.group, margin, margin, call.cols,
                                   grid_cell_size, grid_gap, grid_rx, grid_ry)
  /\ pc' = "returned"
  /\ UNCHANGED <<source, progress, error_messages, warning_messages, sections,
                 rendered, exit_status, crashed, call, files>>

GridNext == GridCall

GridSpec == GridInit /\ [][GridNext]_vars

(***************************************************************************)
(* generate_svg_from_lines called on its own, with any list of command     *)
(* strings and with or without an earlier file at out_path                 *)
(***************************************************************************)
MaxLines == 3    \* command strings in one list

RawLines ==
  {"STYLE|.bg { fill: #0d1116; }",
   "STYLE|a[lang|=en] { fill: red; }",
   "STYLE",
   "TEXT|24|38|title|Part 1",
   "TEXT|24|70|path|C1/R&D|2",
   "TEXT|24|38",
   "text|24|38|body",
   "RECT|0|0|500|100|0|0|bg",
   "RECT|24|24|24|24",
   " rect |24|24|24|24|2|2",
   "GROUP_OPEN|grid|",
   "GROUP_CLOSE|",
   "<circle r=" \o Q \o "3" \o Q \o " />",
   ""}

LineLists == UNION {[1..n -> RawLines] : n \in 0..MaxLines}

SvgPath == "progress/p1.svg"

SvgInit ==
  /\ call \in {[lines |-> l, out_path |-> SvgPath, svg_width |-> canvas_width,
                svg_height |-> 100] : l \in LineLists}
  /\ files \in {<<>>, << <<SvgPath, <<"<svg />">> >> >>}
  /\ ret = None
  /\ pc = "call"
  /\ source = None
  /\ progress = None
  /\ error_messages = <<>>
  /\ warning_messages = <<>>
  /\ sections = None
  /\ rendered = <<>>
  /\ exit_status = -1
  /\ crashed = "no"

\* a call of generate_svg_from_lines: the file is written when the call
\* returns, and left as it was when the ValueError leaves the call
SvgCall ==
  /\ pc = "call"
  /\ \E r \in {generate_svg_from_lines(call.lines, call.out_path,
                                       call.svg_width, call.svg_height)} :
       /\ ret' = r
       /\ files' = IF r.raised THEN files
                   ELSE WriteFile(files, r.path, r.svg_lines)
       /\ crashed' = IF r.raised THEN "generate_svg_from_lines" ELSE crashed
  /\ pc' = "returned"
  /\ UNCHANGED <<source, progress, error_messages, warning_messages, sections,
                 rendered, exit_status, call>>

SvgNext == SvgCall

SvgSpec == SvgInit /\ [][SvgNext]_vars

(***************************************************************************)
(* interpolate_color called on its own, with stops in any order, stops     *)
(* that share a position, and queries inside and outside [0, 1]            *)
(***************************************************************************)
MaxStops == 4    \* stops in one list
QueryDen == 4    \* a query is num / QueryDen

StopPool ==
  {<<p, c>> : p \in {0, 50, 100}, c \in {"#161c23", "#FF0000"}}

StopLists == UNION {[1..n -> StopPool] : n \in 1..MaxStops}

ColorInit ==
  /\ call \in {[colors |-> l, num |-> n, den |-> QueryDen]
                 : l \in StopLists, n \in -1..(QueryDen + 1)}
  /\ ret = None
  /\ pc = "call"
  /\ source = None
  /\ progress = None
  /\ error_messages = <<>>
  /\ warning_messages = <<>>
  /\ sections = None
  /\ rendered = <<>>
  /\ exit_status = -1
  /\ crashed = "no"
  /\ files = <<>>

\* a call of interpolate_color(colors, num / den): ret.color is the string
\* returned, and the ValueError of line 54 leaves the call
ColorCall ==
  /\ pc = "call"
  /\ \E r \in {interpolate_color(call.colors, call.num, call.den)} :
       /\ ret' = [color |-> r]
       /\ crashed' = IF r = "ValueError" THEN "interpolate_color" ELSE crashed
  /\ pc' = "returned"
  /\ UNCHANGED <<source, progress, error_messages, warning_messages, sections,
                 rendered, exit_status, call, files>>

ColorNext == ColorCall

ColorSpec == ColorInit /\ [][ColorNext]_vars


(***************************************************************************)
(* Properties                                                              *)
(***************************************************************************)
\* main has called interpret_sections and the call is over
Interpreted == progress.t # "none" /\ pc \in {"render", "report", "exited"}

\* the rectangles of a command list that are grid cells
CellIndexes(cmds) ==
  {j \in 1..Len(cmds) : cmds[j].cmd = "RECT" /\ cmds[j].cls # "bg"
                        /\ cmds[j].w = grid_cell_size}

\* the leaf groups of a canonical section in drawing order, each with the
\* labels from the top-level group down to it
RECURSIVE LeavesOf(_, _)
LeavesOf(groups, path) ==
  IF groups = <<>> THEN <<>>
  ELSE (IF groups[1].units.t # "absent"
        THEN <<[path |-> Append(path, groups[1].label), group |-> groups[1]]>>
        ELSE LeavesOf(Get(groups[1].subgroups, ListV(<<>>)).items,
                      Append(path, groups[1].label)))
       \o LeavesOf(Tail(groups), path)

\* C1: when interpret_sections is given a root that is not a mapping, a
\* root without a 'sections' entry, or a root whose 'sections' is not a
\* mapping, it returns None, appends exactly one message to the error list
\* and none to the warning list, and main renders no section and writes no
\* document.
C1_FatalRoot ==
  (Interpreted /\ (\/ progress.t # "dict"
                   \/ Get(progress.sections, None).t = "none"
                   \/ progress.sections.t # "dict"))
    => /\ sections.t = "none"
       /\ Len(error_messages) = 1
       /\ warning_messages = <<>>
       /\ rendered = <<>>
       /\ crashed = "no"

C1_Witness ==
  /\ pc = "exited"
  /\ progress.t = "dict"
  /\ progress.sections.t = "absent"
  /\ error_messages = <<"Missing top-level 'sections' key in progress.yaml.">>
  /\ exit_status = 1

\* the states of the units of a units mapping, as the grid draws them
DrawnStates(units_map) ==
  [j \in 1..Len(units_map.pairs) |-> CellState(units_map, units_map.pairs[j][1])]

\* a canonical section without groups whose top-level unit mapping lists units
IsFlat(section) ==
  /\ section.groups.items = <<>>
  /\ section.units.t = "dict"
  /\ section.units.pairs # <<>>

\* C2: for a flat section (no groups, a top-level unit mapping) with n
\* units of which k have state >= s, the counter of every non-baseline
\* state s is (k, n); with states {0:'todo',1:'done'} and units
\* {a:0,b:1,c:1} the legend text of state 1 is 'done (2/3 pages, 66.7%)'.
C2_FlatCounters ==
  \A i \in 1..Len(rendered) :
    IsFlat(sections.items[i]) =>
      /\ \A p \in 1..Len(sections.items[i].states.pairs) :
           \A s \in {sections.items[i].states.pairs[p][1].n} :
             s # 0 =>
               Lookup(rendered[i].counters, IntV(s), <<-1, -1>>)
                 = <<CountAtLeast(DrawnStates(sections.items[i].units), s),
                     Len(sections.items[i].units.pairs)>>
      /\ (/\ sections.items[i].states = StatesTo(1)
          /\ sections.items[i].units = MapV(<<U("a", 0), U("b", 1), U("c", 1)>>)
          /\ sections.items[i].unit = Pages)
           => \E j \in 1..Len(rendered[i].cmds) :
                /\ rendered[i].cmds[j].cmd = "TEXT"
                /\ rendered[i].cmds[j].cls = "legend"
                /\ rendered[i].cmds[j].content = "done (2/3 pages, 66.7%)"

\* C3: every counter (c, t) returned by compute_state_counters is for a
\* non-baseline state and has 0 <= c <= t, and for two non-baseline states
\* s1 < s2 the completed count of s1 is at least that of s2.
C3_CountersMonotone ==
  \A i \in 1..Len(rendered) :
    \A a \in 1..Len(rendered[i].counters) :
      /\ rendered[i].counters[a][1].n # 0
      /\ 0 <= rendered[i].counters[a][2][1]
      /\ rendered[i].counters[a][2][1] <= rendered[i].counters[a][2][2]
      /\ rendered[i].counters[a][2][2] = rendered[i].total_units
      /\ \A b \in 1..Len(rendered[i].counters) :
           rendered[i].counters[a][1].n < rendered[i].counters[b][1].n
             => rendered[i].counters[a][2][1] >= rendered[i].counters[b][2][1]

C3_Witness ==
  \E i \in 1..Len(rendered) :
    rendered[i].counters = << <<IntV(1), <<2, 3>> >>, <<IntV(2), <<1, 3>> >> >>

\* the number of units a group has to draw: the units it lists, or else
\* the total it declares
UnitCount(group) ==
  IF group.units.pairs # <<>> THEN Len(group.units.pairs)
  ELSE IF group.total.t = "int" /\ group.total.n > 0 THEN group.total.n ELSE 0

\* C4: generate_grid_commands, for a group with n units and any requested
\* column count, emits exactly n rectangle commands; when n = 0 it emits
\* no command at all and returns height 0; and the number of columns it
\* uses never exceeds n.
C4_GridCounts ==
  pc = "returned" =>
    /\ Cardinality(CellIndexes(ret.cmds)) = UnitCount(call.group)
    /\ UnitCount(call.group) = 0 => (ret.cmds = <<>> /\ ret.total_height = 0)
    /\ Cardinality({ret.cmds[j].x : j \in CellIndexes(ret.cmds)})
         <= UnitCount(call.group)

\* the warnings a second normalization of a canonical section records
Rewarnings(section) ==
  (IF section.groups.items = <<>>
   THEN <<SecMsg(section.id) \o ": 'groups' is empty.">> ELSE <<>>)
  \o (IF section.units.t = "dict" /\ section.units.pairs = <<>>
      THEN <<SecMsg(section.id) \o ": top-level 'units' is empty.">> ELSE <<>>)

\* C5 as stated: feeding a canonical section produced by
\* interpret_sections back into interpret_sections, keyed by its id under
\* 'sections', yields an identical canonical section and appends no new
\* message to the error list or to the warning list.
C5_Idempotent ==
  (Interpreted /\ sections.t = "list") =>
    \A i \in 1..Len(sections.items) :
      \A r \in {interpret_sections(Root(<< <<sections.items[i].id,
                                             sections.items[i]>> >>))} :
        /\ ~r.acc.raised
        /\ r.ret = ListV(<<sections.items[i]>>)
        /\ r.acc.e = <<>>
        /\ r.acc.w = <<>>

\* C5 amended: the second normalization yields an identical canonical
\* section and no new error; it records a warning again for an empty
\* 'groups' list and for an empty top-level 'units' mapping, and no other.
C5_IdempotentUpToWarnings ==
  (Interpreted /\ sections.t = "list") =>
    \A i \in 1..Len(sections.items) :
      \A r \in {interpret_sections(Root(<< <<sections.items[i].id,
                                             sections.items[i]>> >>))} :
        /\ ~r.acc.raised
        /\ r.ret = ListV(<<sections.items[i]>>)
        /\ r.acc.e = <<>>
        /\ r.acc.w = Rewarnings(sections.items[i])

C5_Witness ==
  /\ Interpreted
  /\ sections.t = "list"
  /\ \E i \in 1..Len(sections.items) :
       /\ IsFlat(sections.items[i])
       /\ error_messages # <<>>
       /\ interpret_sections(Root(<< <<sections.items[i].id,
                                      sections.items[i]>> >>)).acc.w
            = <<"Section 'p1': 'groups' is empty.">>

\* C6 as stated: when a leaf group declares a total larger than the
\* number of units it lists, placeholder units are drawn for the missing
\* ones, so the grid has exactly 'total' cells.
C6_TotalCells ==
  (/\ pc = "returned"
   /\ call.group.total.t = "int"
   /\ call.group.total.n > Len(call.group.units.pairs))
    => Cardinality(CellIndexes(ret.cmds)) = call.group.total.n

\* C6 amended: a leaf group that lists no unit and declares a total t > 0
\* is drawn as t placeholder cells of state 0; a group that lists at least
\* one unit is drawn with one cell per listed unit, whatever its total.
C6_PlaceholdersWhenNoneListed ==
  pc = "returned" =>
    /\ (/\ call.group.units.pairs = <<>>
        /\ call.group.total.t = "int"
        /\ call.group.total.n > 0)
         => /\ Cardinality(CellIndexes(ret.cmds)) = call.group.total.n
            /\ \A j \in CellIndexes(ret.cmds) :
                 ret.cmds[j].cls = "square state-0"
    /\ call.group.units.pairs # <<>>
         => Cardinality(CellIndexes(ret.cmds)) = Len(call.group.units.pairs)

C6_Witness ==
  /\ pc = "returned"
  /\ call.group.units.pairs = <<>>
  /\ call.group.total = IntV(3)
  /\ Cardinality(CellIndexes(ret.cmds)) = 3
  /\ ret.cmds[2].cls = "square state-0"

\* the units of a units mapping whose state is missing or no integer
OddUnits(units) ==
  IF units.t # "dict" THEN {}
  ELSE {j \in 1..Len(units.pairs) : ~PyInt(units.pairs[j][2]).ok}

\* the numbers of units, and of units whose state is missing or no
\* integer, in the leaf groups of a section
RECURSIVE UnitsIn(_)
UnitsIn(leaves) ==
  IF leaves = <<>> THEN 0
  ELSE Len(leaves[1].group.units.pairs) + UnitsIn(Tail(leaves))

RECURSIVE OddUnitsIn(_)
OddUnitsIn(leaves) ==
  IF leaves = <<>> THEN 0
  ELSE Cardinality(OddUnits(leaves[1].group.units)) + OddUnitsIn(Tail(leaves))

HasOddUnit(section) ==
  \/ OddUnitsIn(LeavesOf(section.groups.items, <<>>)) > 0
  \/ OddUnits(section.units) # {}

\* every label on the way to a leaf group of the section is a string
LabelsAreStrings(section) ==
  \A leaves \in {LeavesOf(section.groups.items, <<>>)} :
    \A k \in 1..Len(leaves) :
      \A j \in 1..Len(leaves[k].path) : leaves[k].path[j].t = "str"

\* C7: a unit whose state is missing or is not an integer is treated as
\* state 0 and never causes a failure: rendering a normalized section that
\* contains such a unit completes without raising, the unit's cell has
\* class state-0, and the counters count the unit (as state 0).
C7_OddUnitIsStateZero ==
  /\ (/\ crashed = "render_section_svg"
      /\ LabelsAreStrings(sections.items[Len(rendered) + 1]))
       => ~HasOddUnit(sections.items[Len(rendered) + 1])
  /\ \A i \in 1..Len(rendered) :
       /\ OddUnits(sections.items[i].units) # {}
            => \E j \in CellIndexes(rendered[i].cmds) :
                 rendered[i].cmds[j].cls = "square state-0"
       /\ OddUnitsIn(LeavesOf(sections.items[i].groups.items, <<>>)) > 0
            => rendered[i].total_units
                 = UnitsIn(LeavesOf(sections.items[i].groups.items, <<>>))

\* a leaf group that lists no unit and declares total 0
IsEmptyLeaf(group) == group.units.pairs = <<>> /\ group.total = IntV(0)

UncataloguedWarning(header) ==
  "Group '" \o header \o "' has total=0; considered uncatalogued."

\* C8: for an empty leaf group with declared total 0, rendering the
\* normalized section emits the group's header followed by the
\* 'uncatalogued' placeholder text, emits no grid for it, and records
\* exactly one warning for it.
C8_EmptyLeafGroup ==
  \A i \in 1..Len(rendered) :
    \A leaves \in {LeavesOf(sections.items[i].groups.items, <<>>)} :
      \A k \in 1..Len(leaves) :
        IsEmptyLeaf(leaves[k].group) =>
          \A header \in {Header(leaves[k].path)} :
            /\ \E j \in 1..(Len(rendered[i].cmds) - 1) :
                 /\ rendered[i].cmds[j].cmd = "TEXT"
                 /\ rendered[i].cmds[j].cls = "path"
                 /\ rendered[i].cmds[j].content = header
                 /\ rendered[i].cmds[j + 1].cmd = "TEXT"
                 /\ rendered[i].cmds[j + 1]
                      = Text(margin, rendered[i].cmds[j].y + path_gap, "body",
                             UncataloguedText)
                 /\ j + 2 <= Len(rendered[i].cmds)
                      => rendered[i].cmds[j + 2].cmd # "GROUP_OPEN"
            /\ Cardinality({m \in 1..Len(rendered[i].warnings) :
                              rendered[i].warnings[m] = UncataloguedWarning(header)})
                 = Cardinality({m \in 1..Len(leaves) :
                                  /\ Header(leaves[m].path) = header
                                  /\ leaves[m].group.total = IntV(0)})

C8_Witness ==
  /\ pc = "exited"
  /\ Len(rendered) = 1
  /\ sections.items[1].groups.items
       = <<Group(StrV("g1"), StrV("G1"), IntV(0), MapV(<<>>), Absent)>>
  /\ rendered[1].warnings = <<UncataloguedWarning("G1")>>
  /\ CellIndexes(rendered[1].cmds) = {}
  /\ warning_messages = <<UncataloguedWarning("G1")>>

\* C9: at the end of a run the exit status is non-zero if and only if the
\* error list is non-empty, and every section that survived normalization
\* has been rendered by then.
C9_ExitStatus ==
  pc = "exited" =>
    /\ exit_status # 0 <=> error_messages # <<>>
    /\ sections.t = "list" => Len(rendered) = Len(sections.items)

\* the canonical form of a leaf group or subgroup
IsCanonicalLeaf(g) ==
  /\ g.t = "dict"
  /\ g.id.t \notin {"absent", "none"}
  /\ g.label.t # "absent"
  /\ g.total.t = "int"
  /\ g.units.t = "dict"
  /\ g.subgroups.t = "absent"

\* the canonical form of a group
IsCanonicalGroup(g) ==
  \/ IsCanonicalLeaf(g)
  \/ /\ g.t = "dict"
     /\ g.id.t \notin {"absent", "none"}
     /\ g.label.t # "absent"
     /\ g.total.t = "absent"
     /\ g.units.t = "absent"
     /\ g.subgroups.t = "list"
     /\ \A j \in 1..Len(g.subgroups.items) : IsCanonicalLeaf(g.subgroups.items[j])

\* the canonical form of a section
IsCanonicalSection(section) ==
  /\ section.t = "dict"
  /\ section.id.t # "absent"
  /\ section.title.t # "absent"
  /\ section.unit.t = "dict"
  /\ section.unit.name.t # "absent"
  /\ section.unit.plural.t # "absent"
  /\ section.states.t = "dict"
  /\ \A j \in 1..Len(section.states.pairs) :
       /\ section.states.pairs[j][1].t = "int"
       /\ section.states.pairs[j][2].t = "str"
       /\ \A k \in 1..Len(section.states.pairs) :
            SameKey(section.states.pairs[j][1], section.states.pairs[k][1])
              => j = k
  /\ section.final_state.t \in {"none", "int"}
  /\ section.groups.t = "list"
  /\ \A j \in 1..Len(section.groups.items) :
       IsCanonicalGroup(section.groups.items[j])
  /\ section.units.t \in {"absent", "dict"}

\* C10: interpret_sections never raises: it returns None, or a list of
\* canonical sections, one for each entry of 'sections' that is a mapping.
C10_NeverRaises ==
  /\ crashed # "interpret_sections"
  /\ Interpreted =>
       \/ sections.t = "none"
       \/ /\ sections.t = "list"
          /\ progress.t = "dict"
          /\ progress.sections.t = "dict"
          /\ Len(sections.items)
               = Cardinality({j \in 1..Len(progress.sections.pairs) :
                                progress.sections.pairs[j][2].t = "dict"})
          /\ \A i \in 1..Len(sections.items) :
               IsCanonicalSection(sections.items[i])

C10_Witness ==
  /\ Interpreted
  /\ sections.t = "list"
  /\ Len(sections.items) = 1
  /\ sections.items[1].groups.items # <<>>
  /\ sections.items[1].groups.items[1].total = IntV(0)
  /\ error_messages
       = <<"Section 'p1', group 'g1': 'total' not an integer; setting to 0.">>

\* how often a message stands in the error list
ErrorCount(message) ==
  Cardinality({m \in 1..Len(error_messages) : error_messages[m] = message})

\* the entries of 'sections' that are mappings, in input order
MappingPairs(pairs) == SelectSeq(pairs, LAMBDA p : p[2].t = "dict")

\* an element of a raw 'groups' or 'subgroups' list that is a mapping
\* with an id
IsValidElement(e) == e.t = "dict" /\ Get(e.id, None).t # "none"

ValidElements(list) == SelectSeq(list, IsValidElement)

\* a raw 'groups' or 'subgroups' value as the list of its elements
RawList(field) == IF field.t = "list" THEN field.items ELSE <<>>

IdsOf(items) == [j \in 1..Len(items) |-> items[j].id]

\* the valid elements of a raw list and the canonical list made of it
\* carry the same ids in the same order
SameIdsInOrder(raw, canonical) ==
  IdsOf(ValidElements(raw)) = IdsOf(canonical)

\* every malformed element of a raw 'subgroups' list has its one error
SubgroupsSkippedOnce(key, gid, raw) ==
  \A si \in 1..Len(raw) :
    /\ raw[si].t # "dict" =>
         ErrorCount(GrpMsg(key, gid) \o ": subgroup at index "
                      \o StrOfInt(si - 1) \o " invalid; skipping.") = 1
    /\ (raw[si].t = "dict" /\ Get(raw[si].id, None).t = "none") =>
         ErrorCount(GrpMsg(key, gid) \o ": subgroup at index "
                      \o StrOfInt(si - 1) \o " missing 'id'; skipping.") = 1

\* every malformed element of a raw 'groups' list has its one error, and
\* every valid group with subgroups keeps its valid subgroups in order
GroupsSkippedOnce(key, raw, canonical) ==
  /\ \A gi \in 1..Len(raw) :
       /\ raw[gi].t # "dict" =>
            ErrorCount(SecMsg(key) \o ": group at index "
                         \o StrOfInt(gi - 1) \o " must be a mapping; skipping.") = 1
       /\ (raw[gi].t = "dict" /\ Get(raw[gi].id, None).t = "none") =>
            ErrorCount(SecMsg(key) \o ": group at index "
                         \o StrOfInt(gi - 1) \o " missing 'id'; skipping.") = 1
  /\ SameIdsInOrder(raw, canonical)
  /\ \A j \in 1..Len(canonical) :
       \A g \in {ValidElements(raw)[j]} :
         Get(g.subgroups, None).t # "none" =>
           /\ canonical[j].subgroups.t = "list"
           /\ SameIdsInOrder(RawList(g.subgroups), canonical[j].subgroups.items)
           /\ SubgroupsSkippedOnce(key, g.id, RawList(g.subgroups))

\* C11: a malformed element skips only itself.  A section that is not a
\* mapping, a group or subgroup that is not a mapping or has no id, is
\* dropped with exactly one recorded error, and the valid elements of the
\* same parent all appear in the canonical output in the input order.
C11_SkipOnlyItself ==
  (Interpreted /\ sections.t = "list") =>
    /\ \A k \in 1..Len(progress.sections.pairs) :
         progress.sections.pairs[k][2].t # "dict" =>
           ErrorCount(SecMsg(progress.sections.pairs[k][1])
                        \o " must be an object/dictionary.") = 1
    /\ \A raw \in {MappingPairs(progress.sections.pairs)} :
         /\ Len(sections.items) = Len(raw)
         /\ \A i \in 1..Len(raw) :
              /\ sections.items[i].id = raw[i][1]
              /\ GroupsSkippedOnce(raw[i][1], RawList(Get(raw[i][2].groups, None)),
                                   sections.items[i].groups.items)

\* a section that is not a mapping stands before a section in which a
\* group that is not a mapping, a group with a subgroup without id and a
\* group without id stand before a valid group
C11_Witness ==
  /\ Interpreted
  /\ sections.t = "list"
  /\ Len(progress.sections.pairs) = 2
  /\ progress.sections.pairs[1][2].t # "dict"
  /\ Len(sections.items) = 1
  /\ \E raw \in {RawList(Get(progress.sections.pairs[2][2].groups, None))} :
       /\ Len(raw) = 4
       /\ raw[1].t # "dict"
       /\ IsValidElement(raw[2])
       /\ raw[3].t = "dict" /\ raw[3].id.t = "absent"
       /\ IsValidElement(raw[4])
       /\ IdsOf(sections.items[1].groups.items) = <<raw[2].id, raw[4].id>>
       /\ IdsOf(sections.items[1].groups.items[1].subgroups.items) = <<StrV("s1")>>
  /\ Len(error_messages) = 4


\* a group entry has the key
Has(field) == field.t # "absent"

\* a container: a 'subgroups' list and neither 'total' nor 'units'
IsContainerShape(g) ==
  Has(g.subgroups) /\ g.subgroups.t = "list" /\ ~Has(g.total) /\ ~Has(g.units)

\* a leaf: 'total' and 'units' and no 'subgroups'
IsLeafShape(g) == Has(g.total) /\ Has(g.units) /\ ~Has(g.subgroups)

\* every group of a canonical list, and every subgroup below it
RECURSIVE AllGroups(_)
AllGroups(groups) ==
  IF groups = <<>> THEN {}
  ELSE {groups[1]} \cup AllGroups(Tail(groups))
       \cup (IF Has(groups[1].subgroups) /\ groups[1].subgroups.t = "list"
             THEN AllGroups(groups[1].subgroups.items) ELSE {})

\* C12: every group in the output of interpret_sections, subgroups
\* included, is exactly one of two shapes: a container with a 'subgroups'
\* list and no 'total'/'units', or a leaf with 'total' and 'units' and no
\* 'subgroups'; none carries both 'subgroups' and 'total' or 'units'.
C12_ContainerOrLeaf ==
  (Interpreted /\ sections.t = "list") =>
    \A i \in 1..Len(sections.items) :
      \A g \in AllGroups(sections.items[i].groups.items) :
        /\ IsContainerShape(g) # IsLeafShape(g)
        /\ ~(Has(g.subgroups) /\ (Has(g.total) \/ Has(g.units)))

\* a raw group that carries 'subgroups' together with 'total' and 'units'
\* has become a container
C12_Witness ==
  /\ Interpreted
  /\ sections.t = "list"
  /\ Len(sections.items) = 1
  /\ \E raw \in {progress.sections.pairs[1][2]} :
       /\ raw.t = "dict"
       /\ Get(raw.groups, None).t = "list"
       /\ Len(raw.groups.items) = 1
       /\ raw.groups.items[1].t = "dict"
       /\ raw.groups.items[1].subgroups.t = "list"
       /\ raw.groups.items[1].total.t = "int"
       /\ raw.groups.items[1].units.t = "dict"
  /\ Len(sections.items[1].groups.items) = 1
  /\ IsContainerShape(sections.items[1].groups.items[1])
  /\ Len(sections.items[1].groups.items[1].subgroups.items) = 1
  /\ IsLeafShape(sections.items[1].groups.items[1].subgroups.items[1])


\* a state key that is an integer or the decimal form of one
ParsesAsInt(k) ==
  \/ k.t = "int"
  \/ k.t = "str" /\ \E n \in -MaxParsed..MaxParsed : StrOfInt(n) = k.s

\* the integer such a key stands for
IntOfKey(k) ==
  IF k.t = "int" THEN k.n
  ELSE CHOOSE n \in -MaxParsed..MaxParsed : StrOfInt(n) = k.s

\* the label a raw label is stored as
AsLabel(v) == IF v.t = "str" THEN v ELSE StrV(PyStr(v))

\* the raw items whose key stands for the integer n
ItemsFor(raw, n) ==
  {j \in 1..Len(raw) : ParsesAsInt(raw[j][1]) /\ IntOfKey(raw[j][1]) = n}

\* the canonical states against the raw states mapping of section key
StatesNormalised(key, raw, canonical) ==
  /\ \A j \in 1..Len(canonical) :
       /\ canonical[j][1].t = "int"
       /\ canonical[j][2].t = "str"
       /\ ItemsFor(raw, canonical[j][1].n) # {}
       /\ \A k \in 1..Len(canonical) :
            canonical[j][1] = canonical[k][1] => j = k
  /\ \A j \in 1..Len(raw) :
       IF ParsesAsInt(raw[j][1])
       THEN /\ \E last \in ItemsFor(raw, IntOfKey(raw[j][1])) :
                 /\ \A o \in ItemsFor(raw, IntOfKey(raw[j][1])) : o <= last
                 /\ Lookup(canonical, IntV(IntOfKey(raw[j][1])), None)
                      = AsLabel(raw[last][2])
            /\ raw[j][2].t # "str" =>
                 ErrorCount(SecMsg(key) \o ": state value for '"
                              \o PyStr(raw[j][1]) \o "' should be a string; casting.")
                   = Cardinality({o \in 1..Len(raw) :
                                    /\ PyStr(raw[o][1]) = PyStr(raw[j][1])
                                    /\ ParsesAsInt(raw[o][1])
                                    /\ raw[o][2].t # "str"})
       ELSE ErrorCount(SecMsg(key) \o ": state key '" \o PyStr(raw[j][1])
                         \o "' is not an integer; skipping.")
              = Cardinality({o \in 1..Len(raw) :
                               /\ PyStr(raw[o][1]) = PyStr(raw[j][1])
                               /\ ~ParsesAsInt(raw[o][1])})

\* a raw 'states' value as the items of the mapping
RawStates(field) == IF field.t = "dict" THEN field.pairs ELSE <<>>

\* C13: in every canonical section the 'states' mapping has only integer
\* keys and string labels.  A string key that parses as an integer is
\* stored under that integer, a key that does not parse is dropped with
\* one recorded error, and a label that is not a string is stored as its
\* string form with one recorded error.
C13_StatesNormalised ==
  (Interpreted /\ sections.t = "list") =>
    \A raw \in {MappingPairs(progress.sections.pairs)} :
      \A i \in 1..Len(sections.items) :
        /\ sections.items[i].states.t = "dict"
        /\ StatesNormalised(raw[i][1],
                            RawStates(Get(raw[i][2].states, MapV(<<>>))),
                            sections.items[i].states.pairs)

\* string keys "0" and "2", a key "x" and the labels 5 and None
C13_Witness ==
  /\ Interpreted
  /\ sections.t = "list"
  /\ Len(sections.items) = 1
  /\ Len(RawStates(Get(progress.sections.pairs[1][2].states, None))) = 4
  /\ sections.items[1].states
       = MapV(<< <<IntV(0), StrV("todo")>>, <<IntV(1), StrV("5")>>,
                 <<IntV(2), StrV("None")>> >>)
  /\ ErrorCount("Section 'p1': state key 'x' is not an integer; skipping.") = 1
  /\ ErrorCount("Section 'p1': state value for '1' should be a string; casting.") = 1
  /\ ErrorCount("Section 'p1': state value for '2' should be a string; casting.") = 1


\* how many "|" a command string holds
BarCount(raw) == Cardinality({i \in 1..Len(raw) : SubSeq(raw, i, i) = "|"})

\* the command name of a command string: what stands before its first
\* "|", without surrounding blanks and in upper case
CommandName(raw) ==
  Upper(Strip(IF FindBar(raw) = 0 THEN raw ELSE SubSeq(raw, 1, FindBar(raw) - 1)))

\* a TEXT command with fewer than four arguments or a RECT command with
\* fewer than seven
IsShortCommand(raw) ==
  \/ CommandName(raw) = "TEXT" /\ BarCount(raw) < 4
  \/ CommandName(raw) = "RECT" /\ BarCount(raw) < 7

\* C14: generate_svg_from_lines fails fast on a TEXT command with fewer
\* than four arguments or a RECT command with fewer than seven: the call
\* raises and the files are left as they were, no document being written
\* for the command list, even when every other command is valid.
C14_FailFast ==
  [][(SvgCall /\ \E j \in 1..Len(call.lines) : IsShortCommand(call.lines[j]))
       => /\ ret'.raised
          /\ crashed' = "generate_svg_from_lines"
          /\ files' = files]_vars

\* a valid STYLE and a valid RECT stand before a TEXT with two arguments,
\* the call has raised and the earlier file is still the one at out_path
C14_Witness ==
  /\ pc = "returned"
  /\ call.lines = <<"STYLE|.bg { fill: #0d1116; }", "RECT|0|0|500|100|0|0|bg",
                    "TEXT|24|38">>
  /\ ret.raised
  /\ crashed = "generate_svg_from_lines"
  /\ files = << <<SvgPath, <<"<svg />">> >> >>


\* the payload of a STYLE command string: all that follows its first "|"
StylePayload(raw) ==
  IF FindBar(raw) = 0 THEN "" ELSE SubSeq(raw, FindBar(raw) + 1, Len(raw))

\* the payloads of the STYLE commands of a list, in emission order
RECURSIVE StylePayloads(_)
StylePayloads(lines) ==
  IF lines = <<>> THEN <<>>
  ELSE (IF lines[1] # "" /\ CommandName(lines[1]) = "STYLE"
        THEN <<StylePayload(lines[1])>> ELSE <<>>)
       \o StylePayloads(Tail(lines))

\* the lines of a document between <style> and </style>, <<>> when the
\* document has no stylesheet block
StyleBlockOf(svg_lines) ==
  IF \E j \in 1..Len(svg_lines) : svg_lines[j] = "</style>"
  THEN SubSeq(svg_lines, 3,
              (CHOOSE j \in 1..Len(svg_lines) : svg_lines[j] = "</style>") - 1)
  ELSE <<>>

\* C15: the serializer writes every STYLE command's payload verbatim, the
\* whole payload unchanged, inside a single stylesheet block that holds
\* the payloads of all STYLE commands in emission order, each on its own
\* line.
C15_StyleVerbatim ==
  (pc = "returned" /\ ~ret.raised) =>
    \A payloads \in {StylePayloads(call.lines)} :
      /\ payloads # <<>> =>
           /\ ret.svg_lines[2] = "<style>"
           /\ Cardinality({j \in 1..Len(ret.svg_lines) :
                             ret.svg_lines[j] = "<style>"}) = 1
      /\ StyleBlockOf(ret.svg_lines) = payloads


\* C16: after the layout of a section the tracked maximum x is at least
\* the right edge, plus the right padding, of every rectangle and of every
\* text emitted: taking any emitted rectangle or text into account would
\* not move it.
C16_MaxXCoversEverything ==
  \A i \in 1..Len(rendered) :
    \A j \in 1..Len(rendered[i].cmds) :
      \A c \in {rendered[i].cmds[j]} :
        /\ c.cmd = "RECT" =>
             update_max_for_rect(rendered[i].max_x, c.x, c.w) = rendered[i].max_x
        /\ c.cmd = "TEXT" =>
             update_max_for_text(rendered[i].max_x, c.x, c.content, c.cls)
               = rendered[i].max_x


\* the declared state that has exactly k - 1 declared states below it
KthState(pairs, k) ==
  (CHOOSE j \in 1..Len(pairs) :
     Cardinality({o \in 1..Len(pairs) : pairs[o][1].n < pairs[j][1].n}) = k - 1)

\* tenths is completed/total*100 to one decimal, in tenths: no other
\* number of tenths is nearer
IsNearestTenths(tenths, completed, total) ==
  /\ 2 * tenths * total - 2000 * completed <= total
  /\ 2000 * completed - 2 * tenths * total <= total

\* "<label> (<completed>/<total> <unit-plural>, <pct>%)", pct being 0.0
\* when total is 0
IsCountedText(text, label, ct, plural) ==
  \E tenths \in (IF ct[2] = 0 THEN {0}
                 ELSE {t \in {(1000 * ct[1]) \div ct[2],
                              (1000 * ct[1]) \div ct[2] + 1} :
                         IsNearestTenths(t, ct[1], ct[2])}) :
    text = label \o " (" \o StrOfInt(ct[1]) \o "/" \o StrOfInt(ct[2])
             \o " " \o plural \o ", " \o StrOfInt(tenths \div 10) \o "."
             \o StrOfInt(tenths % 10) \o "%)"

\* the legend row of the k-th declared state: a swatch and then a text
IsLegendRow(swatch, text, s, label, counters, plural) ==
  /\ swatch.cmd = "RECT"
  /\ swatch.cls = "square state-" \o StrOfInt(s)
  /\ swatch.w = legend_square_size /\ swatch.h = legend_square_size
  /\ text.cmd = "TEXT"
  /\ text.cls = "legend"
  /\ IF s = 0 THEN text.content = label
     ELSE /\ Lookup(counters, IntV(s), None) # None
          /\ IsCountedText(text.content, label, Lookup(counters, IntV(s), None),
                           plural)

\* the commands of a rendered section end with the legend of the section
LegendOf(section, r) ==
  \A n \in {Len(section.states.pairs)} :
    /\ Cardinality({j \in 1..Len(r.cmds) :
                      r.cmds[j].cmd = "TEXT" /\ r.cmds[j].cls = "legend"}) = n
    /\ Cardinality({j \in 1..Len(r.cmds) :
                      r.cmds[j].cmd = "RECT" /\ r.cmds[j].w = legend_square_size})
         = n
    /\ Len(r.cmds) >= 2 * n
    /\ \A k \in 1..n :
         \A p \in {section.states.pairs[KthState(section.states.pairs, k)]} :
           IsLegendRow(r.cmds[Len(r.cmds) - 2 * n + 2 * k - 1],
                       r.cmds[Len(r.cmds) - 2 * n + 2 * k],
                       p[1].n, p[2].s, r.counters, PyStr(section.unit.plural))

\* C17: the legend has exactly one row per declared state, in ascending
\* state order, each row a swatch rectangle of class state-<s> followed by
\* a text: the text of the baseline state 0 is its label only, and the text
\* of every other state is "<label> (<completed>/<total> <unit-plural>,
\* <pct>%)" with pct = completed/total*100 to one decimal, 0.0 when total
\* is 0.
C17_LegendRows ==
  \A i \in 1..Len(rendered) : LegendOf(sections.items[i], rendered[i])

\* three rows: the label of state 0 alone, then two counted states, one
\* of them with a percentage that had to be rounded
C17_Witness ==
  /\ Len(rendered) = 1
  /\ Len(sections.items[1].states.pairs) = 3
  /\ \E n \in {Len(rendered[1].cmds)} :
       /\ rendered[1].cmds[n - 4].content = "todo"
       /\ rendered[1].cmds[n - 2].content = "stage1 (3/3 pages, 100.0%)"
       /\ rendered[1].cmds[n].content = "done (2/3 pages, 66.7%)"


\* list a is the beginning of list b: b is a with messages appended
IsPrefix(a, b) == Len(a) <= Len(b) /\ SubSeq(b, 1, Len(a)) = a

\* the two lists as a call finds them
IssuesNow == [e |-> error_messages, w |-> warning_messages, raised |-> FALSE]

\* handle_error appends exactly one message to the error list and leaves
\* the warning list as it is, and handle_warning the other way round
HandlersAppendOne ==
  \A message \in {"Section 'p1': 'groups' is empty."} :
    /\ handle_error(IssuesNow, message).e = Append(error_messages, message)
    /\ handle_error(IssuesNow, message).w = warning_messages
    /\ handle_warning(IssuesNow, message).w = Append(warning_messages, message)
    /\ handle_warning(IssuesNow, message).e = error_messages

\* C18: the two issue lists are append-only over a whole run: every step
\* leaves each list as it was or with messages appended, none removed,
\* reordered or rewritten; handle_error appends exactly one message to the
\* error list and leaves the warning list unchanged, and handle_warning
\* appends exactly one message to the warning list and leaves the error
\* list unchanged.
C18_AppendOnly ==
  [][/\ IsPrefix(error_messages, error_messages')
     /\ IsPrefix(warning_messages, warning_messages')
     /\ HandlersAppendOne]_vars

\* a run in which interpret_sections recorded two errors and two calls of
\* render_section_svg a warning each
C18_Witness ==
  /\ pc = "exited"
  /\ Len(error_messages) >= 2
  /\ Len(warning_messages) >= 2
  /\ Len(rendered) = 2
  /\ rendered[1].warnings # <<>>
  /\ rendered[2].warnings # <<>>


\* a file with these lines is at the path
IsFile(path, svg_lines) ==
  \E j \in 1..Len(files) : files[j] = <<path, svg_lines>>

\* what the run produced for its i-th canonical section is what comes of
\* the section when it is processed alone: alone is the entry made of the
\* raw section by itself and r the outcome of rendering that entry
SameAsAlone(i, alone, r) ==
  /\ sections.items[i] = alone
  /\ IF r.acc.raised THEN Len(rendered) < i
     ELSE /\ i <= Len(rendered)
          /\ rendered[i].cmds = r.cmds
          /\ rendered[i].document = r.document
          /\ IsFile(r.document.path, r.document.svg_lines)

\* C19: sections are processed independently: the canonical section, the
\* command list and the document produced for one section are those the
\* section gives when processed alone, whatever other sections stand in
\* the configuration before or after it.
C19_SectionsIndependent ==
  (pc = "exited" /\ sections.t = "list") =>
    \A raw \in {MappingPairs(progress.sections.pairs)} :
      \A i \in 1..Len(raw) :
        \A alone \in {InterpretSection(raw[i][1], raw[i][2], NoIssues).item} :
          SameAsAlone(i, alone, render_section_svg(alone, OutPath(alone)))


\* the states a canonical section declares
DeclaredStates(section) ==
  {section.states.pairs[j][1].n : j \in 1..Len(section.states.pairs)}

\* the states a counters mapping has an entry for
CountedStates(counters) == {counters[j][1].n : j \in 1..Len(counters)}

\* the unit states collected from the groups and subgroups of a canonical
\* section that are at least s, counted
ReachedCount(leaves, s) ==
  Cardinality({p \in UNION {{<<l, u>> : u \in 1..Len(leaves[l].group.units.pairs)}
                              : l \in 1..Len(leaves)} :
                 IntOfKey(leaves[p[1]].group.units.pairs[p[2]][2]) >= s})

\* every counter of a rendered section counts the collected unit states
\* that are at least its state
CountersCount(section, r) ==
  \A j \in 1..Len(r.counters) :
    r.counters[j][2]
      = <<ReachedCount(LeavesOf(section.groups.items, <<>>), r.counters[j][1].n),
          r.total_units>>

\* C20 as the code has it: compute_state_counters produces a counter for
\* exactly the declared states other than state 0.  State 0 has no
\* counter, and every other declared state s, the lowest declared state
\* included when it is not 0, has completed = number of collected unit
\* states >= s.
C20_CountersExceptZero ==
  \A i \in 1..Len(rendered) :
    /\ CountedStates(rendered[i].counters) = DeclaredStates(sections.items[i]) \ {0}
    /\ CountersCount(sections.items[i], rendered[i])

\* C20: compute_state_counters produces a counter for exactly the declared
\* states other than the lowest declared state: the lowest state has no
\* counter and every other declared state s has completed = number of
\* collected unit states >= s, including when the lowest declared state is
\* not 0.
C20_CountersExceptLowest ==
  \A i \in 1..Len(rendered) :
    /\ CountedStates(rendered[i].counters)
         = {s \in DeclaredStates(sections.items[i]) :
              \E o \in DeclaredStates(sections.items[i]) : o < s}
    /\ CountersCount(sections.items[i], rendered[i])

\* the states declared are 1 and 2, and both have a counter
C20_Witness ==
  /\ Len(rendered) = 1
  /\ DeclaredStates(sections.items[1]) = {1, 2}
  /\ rendered[1].counters
       = << <<IntV(1), <<1, 2>> >>, <<IntV(2), <<1, 2>> >> >>


\* the units a group lists, as pairs; <<>> when 'units' is no mapping
ListedUnits(group) ==
  IF Get(group.units, None).t = "dict" THEN group.units.pairs ELSE <<>>

\* the number of units of a group: those listed, else its integer total
UnitsToDraw(group) ==
  IF ListedUnits(group) # <<>> THEN Len(ListedUnits(group))
  ELSE IF Get(group.total, None).t = "int" THEN group.total.n ELSE 0

\* cols clamped to [1, n]
Clamped(cols, n) == IF cols < 1 THEN 1 ELSE IF cols > n THEN n ELSE cols

\* ceil(n / cols) for n >= 1 and 1 <= cols <= n
RowsFor(n, cols) == CHOOSE r \in 1..n : r * cols >= n /\ (r - 1) * cols < n

\* the state of the i-th unit (0-based) in the order of the identifiers,
\* 0 for a placeholder and for a value that is no integer
IthState(pairs, i) ==
  IF pairs = <<>> THEN 0
  ELSE \* the listed unit with exactly i identifiers before its own
       (LET j == CHOOSE j \in 1..Len(pairs) :
                   Cardinality({o \in 1..Len(pairs) :
                                  IdRank(pairs[o][1].s) < IdRank(pairs[j][1].s)}) = i
        IN IF ParsesAsInt(pairs[j][2]) THEN IntOfKey(pairs[j][2]) ELSE 0)

\* the grid of n >= 1 cells in cols columns, as cmds and height give it
IsRowMajorGrid(pairs, n, cols, cmds, height) ==
  /\ Len(cmds) = n + 2
  /\ \A i \in 0..(n - 1) :
       cmds[i + 2] = Rect(margin + (i % cols) * (grid_cell_size + grid_gap),
                          margin + (i \div cols) * (grid_cell_size + grid_gap),
                          grid_cell_size, grid_cell_size, grid_rx, grid_ry,
                          "square state-" \o StrOfInt(IthState(pairs, i)))
  /\ height = RowsFor(n, cols) * grid_cell_size + (RowsFor(n, cols) - 1) * grid_gap

\* C21: generate_grid_commands places the cells in row-major order over
\* the units sorted by identifier.  For n >= 1 units, with cols clamped to
\* [1, n] and rows = ceil(n / cols), the i-th unit (0-based) is drawn at
\* x = origin_x + (i mod cols) * (cell_size + gap) and
\* y = origin_y + (i div cols) * (cell_size + gap), and the returned
\* height is rows * cell_size + (rows - 1) * gap.
C21_RowMajor ==
  (pc = "returned" /\ UnitsToDraw(call.group) >= 1) =>
    IsRowMajorGrid(ListedUnits(call.group), UnitsToDraw(call.group),
                   Clamped(call.cols, UnitsToDraw(call.group)),
                   ret.cmds, ret.total_height)

\* three units in two columns: the third unit opens the second row
C21_Witness ==
  /\ pc = "returned"
  /\ call.cols = 2
  /\ ListedUnits(call.group) = <<U("a", 0), U("b", 1), U("c", 2)>>
  /\ ret.cmds[4] = Rect(24, 56, 24, 24, 2, 2, "square state-2")
  /\ ret.total_height = 56


\* the first body element of a document: the line after its stylesheet
\* block, or after its opening line when it has no stylesheet block
FirstBodyElement(svg_lines) ==
  IF \E j \in 1..Len(svg_lines) : svg_lines[j] = "</style>"
  THEN svg_lines[(CHOOSE j \in 1..Len(svg_lines) : svg_lines[j] = "</style>") + 1]
  ELSE svg_lines[2]

\* the element of the background rectangle of a canvas of that height
BackgroundElement(height) ==
  "<rect x=" \o Q \o "0" \o Q \o " y=" \o Q \o "0" \o Q
  \o " width=" \o Q \o StrOfInt(canvas_width) \o Q
  \o " height=" \o Q \o StrOfInt(height) \o Q
  \o " rx=" \o Q \o "0" \o Q \o " ry=" \o Q \o "0" \o Q
  \o " class=" \o Q \o "bg" \o Q \o " />"

\* the background comes first, and nowhere else
BackgroundFirst(r) ==
  /\ r.cmds[1] = Rect(0, 0, canvas_width, r.height, 0, 0, "bg")
  /\ \A j \in 2..Len(r.cmds) : r.cmds[j].cmd = "RECT" => r.cmds[j].cls # "bg"
  /\ FirstBodyElement(r.document.svg_lines) = BackgroundElement(r.height)

\* the height is the y after the last legend row plus the bottom padding:
\* a row is a swatch and a text at y, and the next row would be at
\* y + legend_spacing
HeightAfterLegend(section, r) ==
  section.states.pairs # <<>> =>
    /\ r.cmds[Len(r.cmds)].cmd = "TEXT"
    /\ r.cmds[Len(r.cmds)].cls = "legend"
    /\ r.height = r.cmds[Len(r.cmds)].y + legend_spacing + legend_padding_bottom

\* C22: the final canvas height of render_section_svg is the y position
\* after the last legend row plus the bottom padding, and a background
\* rectangle at (0,0) with the canvas width and that height stands before
\* every other command of the command list and is the first body element
\* of the document.
C22_HeightAndBackground ==
  \A i \in 1..Len(rendered) :
    /\ BackgroundFirst(rendered[i])
    /\ HeightAfterLegend(sections.items[i], rendered[i])

\* a section with one leaf group of two units and three states
C22_Witness ==
  /\ Len(rendered) = 1
  /\ Len(sections.items[1].states.pairs) = 3
  /\ rendered[1].height = 180
  /\ rendered[1].cmds[1] = Rect(0, 0, 500, 180, 0, 0, "bg")
  /\ rendered[1].cmds[Len(rendered[1].cmds)].y = 144
  /\ rendered[1].document.svg_lines[4] = "</style>"
  /\ rendered[1].document.svg_lines[5] = BackgroundElement(180)


\* the contents of the texts of class "path" of a command list, in order
RECURSIVE PathTexts(_)
PathTexts(cmds) ==
  IF cmds = <<>> THEN <<>>
  ELSE (IF cmds[1].cmd = "TEXT" /\ cmds[1].cls = "path"
        THEN <<cmds[1].content>> ELSE <<>>)
       \o PathTexts(Tail(cmds))

\* labels joined with "/"
RECURSIVE Slashed(_)
Slashed(labels) ==
  IF labels = <<>> THEN ""
  ELSE IF Len(labels) = 1 THEN labels[1].s
       ELSE labels[1].s \o "/" \o Slashed(Tail(labels))

\* the grids of a command list
GridCount(cmds) ==
  Cardinality({j \in 1..Len(cmds) : cmds[j].cmd = "GROUP_OPEN"})

\* the command after a header is the body of its own leaf: the
\* placeholder text when the total is 0, else a grid
HeaderThenBody(cmds) ==
  \A j \in 1..Len(cmds) :
    (cmds[j].cmd = "TEXT" /\ cmds[j].cls = "path") =>
      /\ j < Len(cmds)
      /\ \/ cmds[j + 1].cmd = "GROUP_OPEN"
         \/ cmds[j + 1] = Text(margin, cmds[j].y + path_gap, "body",
                               UncataloguedText)

\* C23: in the depth-first traversal of a section's groups a container
\* group emits no header and no grid of its own, and each leaf under it
\* emits exactly one header, whose text is the labels of its ancestors and
\* its own joined with "/", in the traversal order of the groups and
\* subgroups.
C23_PathHeaders ==
  \A i \in 1..Len(rendered) :
    ~IsFlat(sections.items[i]) =>
      \A leaves \in {LeavesOf(sections.items[i].groups.items, <<>>)} :
        /\ PathTexts(rendered[i].cmds)
             = [k \in 1..Len(leaves) |-> Slashed(leaves[k].path)]
        /\ GridCount(rendered[i].cmds)
             = Cardinality({k \in 1..Len(leaves) :
                              leaves[k].group.total # IntV(0)})
        /\ HeaderThenBody(rendered[i].cmds)

\* a container with two subgroups after a leaf group: three headers, none
\* of them the container's own
C23_Witness ==
  /\ Len(rendered) = 1
  /\ Len(sections.items[1].groups.items) = 2
  /\ PathTexts(rendered[1].cmds) = <<"G1", "C1/S1", "C1/S2">>
  /\ GridCount(rendered[1].cmds) = 2


\* the stops of the call that stand at position p, as indexes of the list
StopsAt(p) == {j \in 1..Len(call.colors) : call.colors[j][1] = p}

FirstPosition ==
  CHOOSE p \in {call.colors[j][1] : j \in 1..Len(call.colors)} :
    \A j \in 1..Len(call.colors) : p <= call.colors[j][1]

LastPosition ==
  CHOOSE p \in {call.colors[j][1] : j \in 1..Len(call.colors)} :
    \A j \in 1..Len(call.colors) : p >= call.colors[j][1]

\* sorting by position keeps stops of one position in the order given: the
\* earliest and the latest of the sorted stops at position p
EarliestAt(p) == call.colors[CHOOSE j \in StopsAt(p) : \A o \in StopsAt(p) : j <= o]

LatestAt(p) == call.colors[CHOOSE j \in StopsAt(p) : \A o \in StopsAt(p) : j >= o]

\* the query stands exactly at position p (held in hundredths)
QueryAt(p) == 100 * call.num = p * call.den

QueryInRange == 0 <= call.num /\ call.num <= call.den

\* the call raised exactly when the query is below 0 or above 1
RaisesOutOfRange ==
  /\ ~QueryInRange => (ret.color = "ValueError" /\ crashed = "interpolate_color")
  /\ QueryInRange => (ret.color # "ValueError" /\ crashed = "no")

\* two strings name one color
SameColor(a, b) == hex_to_rgb(a) = hex_to_rgb(b)

\* C24: interpolate_color returns the first sorted stop's color for a
\* query at or below the first stop position and the last sorted stop's
\* color at or above the last position, raises for any query below 0 or
\* above 1, and when two stops share the exact queried position it returns
\* the color of the earlier of the two in sorted order, wherever in the
\* stop list the shared position lies.
C24_EarlierEverywhere ==
  pc = "returned" =>
    /\ RaisesOutOfRange
    /\ QueryInRange =>
         /\ 100 * call.num <= FirstPosition * call.den
              => ret.color = EarliestAt(FirstPosition)[2]
         /\ 100 * call.num >= LastPosition * call.den
              => ret.color = LatestAt(LastPosition)[2]
         /\ \A p \in {0, 50, 100} :
              (Cardinality(StopsAt(p)) >= 2 /\ QueryAt(p))
                => SameColor(ret.color, EarliestAt(p)[2])

\* C24 as the code has it: the query at or below the first position gives
\* the first sorted stop's color; any other query at or above the last
\* position gives the last sorted stop's color, the later one when stops
\* share the last position; a query at a shared position strictly between
\* the first and the last gives the color of the earlier of the stops that
\* share it; a query below 0 or above 1 raises.
C24_EarlierExceptAtTheEnd ==
  pc = "returned" =>
    /\ RaisesOutOfRange
    /\ QueryInRange =>
         /\ 100 * call.num <= FirstPosition * call.den
              => ret.color = EarliestAt(FirstPosition)[2]
         /\ (/\ 100 * call.num > FirstPosition * call.den
             /\ 100 * call.num >= LastPosition * call.den)
              => ret.color = LatestAt(LastPosition)[2]
         /\ \A p \in {0, 50, 100} :
              (/\ Cardinality(StopsAt(p)) >= 2 /\ QueryAt(p)
               /\ FirstPosition < p /\ p < LastPosition)
                => SameColor(ret.color, EarliestAt(p)[2])

\* two stops share 0.5 between a stop at 0 and a stop at 1, given out of
\* order, and the query is 0.5: the earlier of the two is returned
C24_Witness ==
  /\ pc = "returned"
  /\ call.colors = << <<50, "#161c23">>, <<100, "#FF0000">>,
                      <<50, "#FF0000">>, <<0, "#FF0000">> >>
  /\ call.num = 2
  /\ call.den = 4
  /\ ret.color = "#161C23"


\* the commands of a list that are placed at the vertical cursor, as
\* indexes: every text and every rectangle but the background
Placed(cmds) ==
  {j \in 1..Len(cmds) :
     \/ cmds[j].cmd = "TEXT"
     \/ cmds[j].cmd = "RECT" /\ cmds[j].cls # "bg"}

\* the y of the row a placed command belongs to: a legend swatch is drawn
\* LEGEND_SQUARE_BASELINE_OFFSET above the y of its row (line 461)
RowY(c) ==
  IF c.cmd = "RECT" /\ c.w = legend_square_size
  THEN c.y + LEGEND_SQUARE_BASELINE_OFFSET
  ELSE c.y

\* no placed command stands above one emitted before it
NeverUpwards(cmds) ==
  \A j \in Placed(cmds) : \A k \in Placed(cmds) :
    j < k => RowY(cmds[j]) <= RowY(cmds[k])

\* the heights generate_grid_commands returns for the leaf groups of a
\* section, with the default layout parameters
GridHeights(section) ==
  \A leaves \in {LeavesOf(section.groups.items, <<>>)} :
    {generate_grid_commands(leaves[k].group, margin, margin, grid_cols,
                            grid_cell_size, grid_gap, grid_rx,
                            grid_ry).total_height : k \in 1..Len(leaves)}
      \subseteq Nat

\* C25: during the layout of any canonical section with the default
\* layout parameters the vertical cursor never decreases:
\* generate_grid_commands returns a height >= 0 for every group, whatever
\* integer its total holds, so every header, grid and legend row is placed
\* at a y not smaller than that of any element emitted before it.
C25_CursorNeverDecreases ==
  \A i \in 1..Len(rendered) :
    IsCanonicalSection(sections.items[i]) =>
      /\ GridHeights(sections.items[i])
      /\ NeverUpwards(rendered[i].cmds)

\* the same for the canonical sections none of whose leaf groups has a
\* negative total: used to tell what makes the cursor move upwards
C25_NoNegativeTotal ==
  \A i \in 1..Len(rendered) :
    (/\ IsCanonicalSection(sections.items[i])
     /\ \A leaves \in {LeavesOf(sections.items[i].groups.items, <<>>)} :
          \A k \in 1..Len(leaves) : leaves[k].group.total.n >= 0)
      => /\ GridHeights(sections.items[i])
         /\ NeverUpwards(rendered[i].cmds)


\* the totals shown by the legend of a rendering: the second number of
\* every counter, and the total the counters were computed with
ShownTotals(r) ==
  {r.counters[k][2][2] : k \in 1..Len(r.counters)} \cup {r.total_units}

\* C26: for any canonical section the total shown in the legend counters
\* equals the number of unit cells drawn in the section's grids: every
\* unit that is counted is drawn as a cell and every drawn cell is counted,
\* also for flat sections, for leaf groups with total 0 but listed units,
\* and for leaf groups with a positive total but no listed units.
C26_CountedIsDrawn ==
  \A i \in 1..Len(rendered) :
    IsCanonicalSection(sections.items[i]) =>
      ShownTotals(rendered[i]) = {Cardinality(CellIndexes(rendered[i].cmds))}

\* a leaf group whose listed units are counted and drawn alike: it lists
\* no unit and has no positive total, or lists units and has a total that
\* is not 0
CountsWhatItDraws(group) ==
  IF group.units.pairs = <<>> THEN group.total.n <= 0 ELSE group.total.n # 0

\* the same for the canonical sections that are not flat and whose leaf
\* groups all count what they draw: used to tell the three cases apart
C26_GroupedAndListed ==
  \A i \in 1..Len(rendered) :
    (/\ IsCanonicalSection(sections.items[i])
     /\ ~IsFlat(sections.items[i])
     /\ \A leaves \in {LeavesOf(sections.items[i].groups.items, <<>>)} :
          \A k \in 1..Len(leaves) : CountsWhatItDraws(leaves[k].group))
      => ShownTotals(rendered[i]) = {Cardinality(CellIndexes(rendered[i].cmds))}


\* how many groups are open after the first j commands of a list
OpenAfter(cmds, j) ==
  Cardinality({k \in 1..j : cmds[k].cmd = "GROUP_OPEN"})
  - Cardinality({k \in 1..j : cmds[k].cmd = "GROUP_CLOSE"})

\* the groups of a command list are balanced and never nested, a group
\* holds only the rectangles of cells, and every cell stands in a group
GroupsOfCells(cmds) ==
  /\ \A j \in 1..Len(cmds) : OpenAfter(cmds, j) \in {0, 1}
  /\ OpenAfter(cmds, Len(cmds)) = 0
  /\ \A j \in 1..Len(cmds) :
       (OpenAfter(cmds, j - 1) = 1 /\ cmds[j].cmd # "GROUP_CLOSE")
         => j \in CellIndexes(cmds)
  /\ \A j \in CellIndexes(cmds) : OpenAfter(cmds, j - 1) = 1

\* how many group elements are open after the first j lines of a document
ElementsOpenAfter(svg_lines, j) ==
  Cardinality({k \in 1..j : IsPrefix("<g ", svg_lines[k])})
  - Cardinality({k \in 1..j : svg_lines[k] = "</g>"})

\* no group element of the document is left open, closed without being
\* opened, or opened inside another
GroupElementsClosed(svg_lines) ==
  /\ \A j \in 1..Len(svg_lines) : ElementsOpenAfter(svg_lines, j) \in {0, 1}
  /\ ElementsOpenAfter(svg_lines, Len(svg_lines)) = 0

\* C27: in every command list produced by render_section_svg the
\* GROUP_OPEN and GROUP_CLOSE commands are balanced and never nested: each
\* grid contributes one GROUP_OPEN, then only its own RECT commands, then
\* one GROUP_CLOSE, so the serialized document never has an unclosed or
\* unopened group element.
C27_GroupsBalanced ==
  \A i \in 1..Len(rendered) :
    /\ GroupsOfCells(rendered[i].cmds)
    /\ Cardinality({k \in 1..Len(rendered[i].document.svg_lines) :
                      rendered[i].document.svg_lines[k] = "</g>"})
         = GridCount(rendered[i].cmds)
    /\ GroupElementsClosed(rendered[i].document.svg_lines)

\* a section of two grids with three cells between them: two group
\* elements in the document, each closed before the next opens
C27_Witness ==
  /\ Len(rendered) = 1
  /\ GridCount(rendered[1].cmds) = 2
  /\ Cardinality(CellIndexes(rendered[1].cmds)) = 3
  /\ Cardinality({k \in 1..Len(rendered[1].document.svg_lines) :
                    rendered[1].document.svg_lines[k] = "</g>"}) = 2


====
